---- MODULE Spec2Model ----
(***************************************************************************)
(* Subscription lifecycle of subscription-service: creation, the three     *)
(* transitions pause / unpause / cancel of the subscription service, and   *)
(* the storage operations of the postgres subscription repository they     *)
(* call.  Spec runs the service calls one at a time (each call is one      *)
(* step); SpecConc runs them as interleaved requests, one step per storage *)
(* round trip; SpecPricing starts from a product and stored vouchers and   *)
(* follows the pricing of a subscription, its read-back and the validation *)
(* of vouchers.                                                            *)
(***************************************************************************)
EXTENDS Integers, Sequences, FiniteSets, TLC

\* ------------------------------------------------------------------ bounds
MaxSubs  == 1      \* subscriptions that are ever created
MaxTime  == 2      \* last instant of the clock
MaxCalls == 3      \* pause / unpause / cancel calls that are ever made
NumProcs == 2      \* concurrent requests in SpecConc
MaxConcCalls == 2  \* transition requests that are ever made in SpecConc
MaxFairCalls == 1  \* transition requests that are ever made in SpecCancel
MaxHandlerCalls == 2 \* requests that are ever made in SpecHandlers
MaxAdminCalls == 2 \* calls that are ever made to the product or voucher service
MaxRegistrations == 3 \* RegisterUser calls that are ever made
MonthLen == 1      \* clock instants per calendar month

\* ------------------------------------------------------- program constants
TrialMonths == 1   \* startDate.AddDate(0, 1, 0)

Active    == "active"
Paused    == "paused"
Cancelled == "cancelled"
NoState   == ""

ReasonCreated == "Subscription created"

DiscountTypeFixed      == "fixed"
DiscountTypePercentage == "percentage"

\* errors returned by the service
ErrSubscriptionNotFound      == "ErrSubscriptionNotFound"
ErrSubscriptionNotActive     == "ErrSubscriptionNotActive"
ErrSubscriptionInTrial       == "ErrSubscriptionInTrial"
ErrSubscriptionAlreadyPaused == "ErrSubscriptionAlreadyPaused"
ErrProductNotFound           == "ErrProductNotFound"
ErrInactiveProduct           == "ErrInactiveProduct"
ErrValidation                == "ValidationErrors"
ErrCreateFailed              == "failed to create subscription"
ErrUpdateFailed              == "failed to update subscription"
ErrLogFailed                 == "failed to log state change"
ErrVoucherNotFound           == "ErrVoucherNotFound"
ErrVoucherExpired            == "ErrVoucherExpired"
ErrVoucherInactive           == "ErrVoucherInactive"
ErrVoucherInvalid            == "ErrVoucherInvalid"
ErrInvalidVoucherCode        == "invalid voucher code"
ErrGetProduct                == "failed to get product"
ErrNoRows                    == "sql: no rows in result set"
Ok                           == "ok"
Proceed                      == "proceed"

ErrCreateProduct             == "failed to create product"
ErrUpdateProduct             == "failed to update product"
ErrStorage                   == "storage error"
ErrCreateVoucher             == "failed to create voucher"
ErrUserAlreadyExists         == "ErrUserAlreadyExists"
ErrCreateUser                == "failed to create user"
ErrUpdateVoucher             == "failed to update voucher"
ErrInvalidProductID          == "invalid product ID"
ErrVoucherCodeExists         == "voucher code already exists"

\* ------------------------------------------------------------ input domains
NilUUID    == "nil"
UserIds    == {"u1"}
UserRowIds == {"u1", "u2", "u3"}
ProductIds == {"p1", "p2", "p3"}
SubIds     == 1..MaxSubs
PairIds    == 1..(MaxSubs + 1)   \* the ids requests name: one more than Spec stores
VoucherIds == {"v1", "v2", "v3", "v4", "v5", "v6"}
Procs      == 1..NumProcs
Ops        == {"pause", "unpause", "cancel"}

\* a nullable timestamp (*time.Time / sql.NullTime)
NilTime      == [valid |-> FALSE, time |-> 0]
SomeTime(t)  == [valid |-> TRUE, time |-> t]

\* ---------------------------------------------------------------- decimals
\* decimal.Decimal: the number c / 10^e, coefficient c and e decimal places
Dec(c, e) == [c |-> c, e |-> e]

\* decimal.NewFromInt
NewFromInt(n) == Dec(n, 0)

RECURSIVE Pow10(_)
Pow10(n) == IF n = 0 THEN 1 ELSE 10 * Pow10(n - 1)

\* the coefficient of d written with e >= d.e decimal places
Rescale(d, e) == d.c * Pow10(e - d.e)

MaxOf(a, b) == IF a >= b THEN a ELSE b

\* Decimal.Add, Decimal.Sub: exact, on the larger number of decimal places
DecAdd(a, b) == Dec(Rescale(a, MaxOf(a.e, b.e)) + Rescale(b, MaxOf(a.e, b.e)),
                    MaxOf(a.e, b.e))
DecSub(a, b) == Dec(Rescale(a, MaxOf(a.e, b.e)) - Rescale(b, MaxOf(a.e, b.e)),
                    MaxOf(a.e, b.e))

\* Decimal.Mul: exact, the decimal places add up
DecMul(a, b) == Dec(a.c * b.c, a.e + b.e)

\* Decimal.Div by decimal.NewFromInt(100): the quotient is rounded to
\* DivisionPrecision = 16 decimal places, which leaves a value of at most
\* 14 decimal places as it is, two places further right
DecDiv100(a) == Dec(a.c, a.e + 2)

\* Decimal.IsNegative
IsNegative(a) == a.c < 0

\* the value a DECIMAL(p, places) column keeps of d: rounded half away from
\* zero to that many decimal places
RoundTo(d, places) ==
    IF d.e <= places
    THEN d
    ELSE LET f == Pow10(d.e - places)
             q == (2 * (IF d.c < 0 THEN -d.c ELSE d.c) + f) \div (2 * f)
         IN  Dec(IF d.c < 0 THEN -q ELSE q, places)

\* Decimal.Equal: equality of the numbers, not of the representations
DecEqual(a, b) == Rescale(a, MaxOf(a.e, b.e)) = Rescale(b, MaxOf(a.e, b.e))

\* a nullable decimal (*decimal.Decimal)
NilDec      == [valid |-> FALSE, val |-> Dec(0, 0)]
SomeDec(d)  == [valid |-> TRUE, val |-> d]

\* ------------------------------------------------------------ voucher codes
\* a code is a string, modelled as the sequence of its characters
NoCode == <<>>

\* unicode.ToUpper on the characters that occur
UpperChar(ch) ==
    CASE ch = "v" -> "V"
      [] ch = "x" -> "X"
      [] OTHER    -> ch

\* strings.ToUpper
ToUpper(code) == [i \in DOMAIN code |-> UpperChar(code[i])]

VARIABLES
    now,          \* the wall clock read by time.Now()
    products,     \* table products: id -> row
    vouchers,     \* table vouchers: id -> row
    users,        \* table users: id -> row
    subs,         \* table subscriptions: id -> row
    changes,      \* table subscription_state_changes, in insertion order
    statusWrites, \* per subscription: UPDATEs that changed the stored status
    calls,        \* transition calls made so far
    last,         \* the most recent service call and what it returned
    pc,           \* SpecConc: where each request stands
    req,          \* SpecConc: the call each request is executing
    loc,          \* SpecConc: the request's local *models.Subscription
    stch          \* SpecConc: the request's local *models.SubscriptionStateChange

vars == <<now, products, vouchers, users, subs, changes, statusWrites, calls, last, pc, req, loc, stch>>

procVars == <<pc, req, loc, stch>>

\* a nil pointer in place of a returned object
Nil    == [nil |-> TRUE]

NoCall == [op |-> "none", id |-> 0, was |-> NoState, ret |-> Ok, obj |-> Nil]
NoReq  == [op |-> "none", id |-> 0]
NoLoc  == [userId |-> NilUUID, productId |-> NilUUID, status |-> NoState,
           startDate |-> 0, endDate |-> 0, trialEndDate |-> NilTime,
           createdAt |-> 0, updatedAt |-> 0]

\* the codes of the stored vouchers, upper-cased as CreateVoucher stores them
StoredCodes == {vouchers[v].code : v \in DOMAIN vouchers}

\* the codes a caller sends: none, a code no voucher has, the codes of the
\* stored vouchers, and two of them in lower case
VoucherCodes ==
    {NoCode, <<"X", "1">>}
      \cup StoredCodes
      \cup {<<"v", code[2]>> : code \in StoredCodes \cap {<<"V", "1">>, <<"V", "3">>}}

NoChange == [subscriptionId |-> 0, previousState |-> NoState, newState |-> NoState,
             changedAt |-> 0, reason |-> ""]

\* time.Time.AddDate(0, months, 0)
AddMonths(t, months) == t + months * MonthLen

\* ------------------------------------------------------------- repository
\* SubscriptionRepository.GetByID: the row joined with its product
Found(id) == id \in DOMAIN subs /\ subs[id].productId \in DOMAIN products

\* variant: sql.ErrNoRows is passed on as it is
GetByIDError_NoRowsUnmapped(id) ==
    IF Found(id) THEN Ok ELSE ErrNoRows

\* SubscriptionRepository.GetByID: the error it returns, sql.ErrNoRows being
\* mapped to ErrSubscriptionNotFound
GetByIDError(id) ==
    IF Found(id) THEN Ok ELSE ErrSubscriptionNotFound

\* variant: the UPDATE has no WHERE clause
RepoUpdate_NoWhere(id, sub, t) ==
    [i \in DOMAIN subs |->
       [subs[i] EXCEPT !.status       = sub.status,
                       !.startDate    = sub.startDate,
                       !.endDate      = sub.endDate,
                       !.trialEndDate = sub.trialEndDate,
                       !.updatedAt    = t]]

\* variant: a subscription that leaves the paused status has its end date
\* moved by the time it spent paused
RepoUpdate_ExtendsEndDate(id, sub, t) ==
    [subs EXCEPT ![id] = [@ EXCEPT !.status       = sub.status,
                                   !.startDate    = sub.startDate,
                                   !.endDate      = IF subs[id].status = Paused /\ sub.status = Active
                                                    THEN sub.endDate + (t - subs[id].updatedAt)
                                                    ELSE sub.endDate,
                                   !.trialEndDate = sub.trialEndDate,
                                   !.updatedAt    = t]]

\* SubscriptionRepository.Update: status, dates and updated_at of the row
\* are overwritten from the caller's copy, whatever the row holds now
RepoUpdate(id, sub, t) ==
    [subs EXCEPT ![id] = [@ EXCEPT !.status       = sub.status,
                                   !.startDate    = sub.startDate,
                                   !.endDate      = sub.endDate,
                                   !.trialEndDate = sub.trialEndDate,
                                   !.updatedAt    = t]]

\* variant: the previous state of a transition is read after the new status
\* has been assigned
StateChange_PreviousAfterAssign(id, previousState, newState, t, reason) ==
    [subscriptionId |-> id,
     previousState |-> IF previousState = NoState THEN NoState ELSE newState,
     newState |-> newState, changedAt |-> t, reason |-> reason]

\* models.SubscriptionStateChange
StateChange(id, previousState, newState, t, reason) ==
    [subscriptionId |-> id, previousState |-> previousState,
     newState |-> newState, changedAt |-> t, reason |-> reason]

\* ----------------------------------------------------------------- guards
\* variant: the trial still counts at the instant it ends
InTrial_Inclusive(sub, t) == sub.trialEndDate.valid /\ t <= sub.trialEndDate.time

\* subscription.TrialEndDate != nil && time.Now().Before(*subscription.TrialEndDate)
InTrial(sub, t) == sub.trialEndDate.valid /\ t < sub.trialEndDate.time

\* variant: the trial check is missing
PauseGuard_NoTrialCheck(sub, t) ==
    IF sub.status # Active THEN ErrSubscriptionNotActive
    ELSE Proceed

\* variant: the trial check comes before the status check
PauseGuard_TrialFirst(sub, t) ==
    IF sub.trialEndDate.valid /\ t < sub.trialEndDate.time THEN ErrSubscriptionInTrial
    ELSE IF sub.status # Active THEN ErrSubscriptionNotActive
    ELSE Proceed

PauseGuard(sub, t) ==
    IF sub.status # Active THEN ErrSubscriptionNotActive
    ELSE IF InTrial(sub, t) THEN ErrSubscriptionInTrial
    ELSE Proceed

\* variant: only an active subscription is turned away
UnpauseGuard_RejectsActiveOnly(sub, t) ==
    IF sub.status = Active THEN ErrSubscriptionAlreadyPaused
    ELSE Proceed

UnpauseGuard(sub, t) ==
    IF sub.status # Paused THEN ErrSubscriptionAlreadyPaused
    ELSE Proceed

\* variant: cancel is refused during the trial, as pause is
CancelGuard_TrialChecked(sub, t) ==
    IF sub.status = Cancelled THEN Ok
    ELSE IF sub.trialEndDate.valid /\ t < sub.trialEndDate.time THEN ErrSubscriptionInTrial
    ELSE Proceed

\* variant: no early return for a cancelled subscription
CancelGuard_NoEarlyReturn(sub, t) == Proceed

CancelGuard(sub, t) ==
    IF sub.status = Cancelled THEN Ok
    ELSE Proceed

Guard(op, sub, t) ==
    CASE op = "pause"   -> PauseGuard(sub, t)
      [] op = "unpause" -> UnpauseGuard(sub, t)
      [] op = "cancel"  -> CancelGuard(sub, t)

NewStatus(op) ==
    CASE op = "pause"   -> Paused
      [] op = "unpause" -> Active
      [] op = "cancel"  -> Cancelled

\* variant: unpause keeps the reason string of pause
Reason_CopiedFromPause(op) ==
    CASE op = "pause"   -> "User requested pause"
      [] op = "unpause" -> "User requested pause"
      [] op = "cancel"  -> "User requested cancellation"

Reason(op) ==
    CASE op = "pause"   -> "User requested pause"
      [] op = "unpause" -> "User requested unpause"
      [] op = "cancel"  -> "User requested cancellation"

\* ------------------------------------------------------------------- Init
Init ==
    /\ now = 0
    /\ products = [p \in {"p1", "p2"} |->
                     [name |-> <<"B">>,
                      durationMonths |-> IF p = "p1" THEN 2 ELSE 1, isActive |-> (p = "p1"),
                      price |-> Dec(10000, 2), taxRate |-> Dec(20, 2)]]
    /\ vouchers = <<>>
    /\ users = <<>>
    /\ subs = <<>>
    /\ changes = <<>>
    /\ statusWrites = [id \in SubIds |-> 0]
    /\ calls = 0
    /\ last = NoCall
    /\ pc = [p \in Procs |-> "idle"]
    /\ req = [p \in Procs |-> NoReq]
    /\ loc = [p \in Procs |-> NoLoc]
    /\ stch = [p \in Procs |-> NoChange]

\* prices and tax rates of the product in the pricing specification
Prices   == {Dec(0, 2), Dec(5000, 2), Dec(10000, 2)}
TaxRates == {Dec(0, 2), Dec(20, 2)}

\* models.Voucher
Voucher(code, discountType, discountValue, productId, isActive, expiresAt) ==
    [code |-> code, discountType |-> discountType, discountValue |-> discountValue,
     productId |-> productId, isActive |-> isActive, expiresAt |-> expiresAt]

\* vouchers that CreateVoucher has stored: a fixed discount that is below,
\* at or above the price of the product, percentage discounts of 0, 25 and
\* 100, unscoped and scoped, active and inactive, all expiring at instant 1
StoredVouchers ==
    [v \in VoucherIds |->
       CASE v = "v1" -> Voucher(<<"V", "1">>, DiscountTypeFixed, Dec(5000, 2), "p1", TRUE, 1)
         [] v = "v2" -> Voucher(<<"V", "2">>, DiscountTypePercentage, Dec(0, 0), NilUUID, TRUE, 1)
         [] v = "v3" -> Voucher(<<"V", "3">>, DiscountTypePercentage, Dec(25, 0), NilUUID, TRUE, 1)
         [] v = "v4" -> Voucher(<<"V", "4">>, DiscountTypePercentage, Dec(100, 0), NilUUID, TRUE, 1)
         [] v = "v5" -> Voucher(<<"V", "5">>, DiscountTypePercentage, Dec(25, 0), "p2", TRUE, 1)
         [] v = "v6" -> Voucher(<<"V", "6">>, DiscountTypeFixed, Dec(5000, 2), "p2", FALSE, 1)]

\* the pricing specification starts with a product of any price and tax
\* rate and with the stored vouchers
InitPricing ==
    /\ now = 0
    /\ \E price \in Prices, taxRate \in TaxRates :
         products = [p \in {"p1", "p2"} |->
                       [name |-> <<"B">>,
                      durationMonths |-> IF p = "p1" THEN 2 ELSE 1, isActive |-> (p = "p1"),
                        price |-> price, taxRate |-> taxRate]]
    /\ vouchers = StoredVouchers
    /\ users = <<>>
    /\ subs = <<>>
    /\ changes = <<>>
    /\ statusWrites = [id \in SubIds |-> 0]
    /\ calls = 0
    /\ last = NoCall
    /\ pc = [p \in Procs |-> "idle"]
    /\ req = [p \in Procs |-> NoReq]
    /\ loc = [p \in Procs |-> NoLoc]
    /\ stch = [p \in Procs |-> NoChange]

\* the clock advances
Tick ==
    /\ now < MaxTime
    /\ now' = now + 1
    /\ UNCHANGED <<users, products, vouchers, subs, changes, statusWrites, calls, last, procVars>>

\* what the caller gets back: the call, the status GetByID returned to it
\* (empty when nothing was read) and the result
Respond(op, id, was, ret) ==
    last' = [op |-> op, id |-> id, was |-> was, ret |-> ret, obj |-> Nil]

\* a call that returns an object (a *models.Subscription or *models.Voucher)
\* and no error
RespondWith(op, id, obj) ==
    last' = [op |-> op, id |-> id, was |-> NoState, ret |-> Ok, obj |-> obj]

\* --------------------------------------------------------------- creation
\* fmt.Errorf("<msg>: %w", err): a new error value that wraps err; it is not
\* equal to err
Wrap(msg, err) == msg \o ": " \o err

\* variant: validation stops at the first rejected field
Validate_FirstOnly(userId, productId) ==
    IF userId = NilUUID THEN <<"user_id">>
    ELSE IF productId = NilUUID THEN <<"product_id">>
    ELSE <<>>

\* CreateSubscriptionInput.Validate: the ValidationErrors it appends, by field
Validate(userId, productId) ==
    (IF userId = NilUUID THEN <<"user_id">> ELSE <<>>)
      \o (IF productId = NilUUID THEN <<"product_id">> ELSE <<>>)

\* a call that fails with ValidationErrors: the error carries its entries
RespondInvalid(op, validationErrors) ==
    last' = [op |-> op, id |-> 0, was |-> NoState, ret |-> ErrValidation,
             obj |-> [validationErrors |-> validationErrors]]

\* the product lookup of CreateSubscription and its is-active check: the error
\* CreateSubscription returns, if any
GetProduct(productId) ==
    IF productId \notin DOMAIN products
    THEN Wrap(ErrGetProduct, ErrProductNotFound)
    ELSE IF ~products[productId].isActive
    THEN ErrInactiveProduct
    ELSE Ok

\* the points at which the transaction of SubscriptionRepository.Create ends
CreateOutcomes ==
    {"ErrBeginTx", "ErrInsertSubscription", "ErrInsertStateChange",
     "ErrCommit", "committed"}

\* the columns that the INSERT of SubscriptionRepository.Create writes
InsertedRow(sub, t) ==
    [userId        |-> sub.userId,
     productId     |-> sub.productId,
     status        |-> sub.status,
     startDate     |-> sub.startDate,
     endDate       |-> sub.endDate,
     trialEndDate  |-> sub.trialEndDate,
     originalPrice |-> sub.originalPrice,
     taxAmount     |-> sub.taxAmount,
     totalAmount   |-> sub.totalAmount,
     createdAt     |-> t,
     updatedAt     |-> t]

\* variant: the two inserts are not in one transaction
RepoCreate_NoTransaction(id, sub, t, outcome) ==
    LET row == (id :> InsertedRow(sub, t)) @@ subs
        rec == StateChange(id, NoState, sub.status, t, ReasonCreated)
    IN  CASE outcome \in {"ErrBeginTx", "ErrInsertSubscription"} ->
               [subs |-> subs, changes |-> changes, err |-> TRUE]
          [] outcome = "ErrInsertStateChange" ->
               [subs |-> row, changes |-> changes, err |-> TRUE]
          [] outcome = "ErrCommit" ->
               [subs |-> row, changes |-> Append(changes, rec), err |-> TRUE]
          [] outcome = "committed" ->
               [subs |-> row, changes |-> Append(changes, rec), err |-> FALSE]

\* SubscriptionRepository.Create: the row and its initial state change are
\* inserted in one transaction; any error rolls both back
RepoCreate(id, sub, t, outcome) ==
    IF outcome = "committed"
    THEN [subs    |-> (id :> InsertedRow(sub, t)) @@ subs,
          changes |-> Append(changes,
                             StateChange(id, NoState, sub.status, t, ReasonCreated)),
          err     |-> FALSE]
    ELSE [subs |-> subs, changes |-> changes, err |-> TRUE]

\* uuid.New()
NewId == Cardinality(DOMAIN subs) + 1

\* variant: the total adds the tax rate instead of the tax amount
BaseAmounts_RateAdded(product) ==
    [originalPrice |-> product.price,
     taxAmount     |-> DecMul(product.price, product.taxRate),
     totalAmount   |-> DecAdd(product.price, product.taxRate)]

\* OriginalPrice, TaxAmount and TotalAmount of a subscription without voucher
BaseAmounts(product) ==
    [originalPrice |-> product.price,
     taxAmount     |-> DecMul(product.price, product.taxRate),
     totalAmount   |-> DecAdd(product.price, DecMul(product.price, product.taxRate))]

\* variant: with a trial the end date is still counted from the creation time
NewSubscription_EndFromCreation(userId, productId, withTrial, t) ==
    LET product  == products[productId]
        trialEnd == AddMonths(t, TrialMonths)
    IN  [userId       |-> userId,
         productId    |-> productId,
         status       |-> Active,
         startDate    |-> IF withTrial THEN trialEnd ELSE t,
         endDate      |-> AddMonths(t, product.durationMonths),
         trialEndDate |-> IF withTrial THEN SomeTime(trialEnd) ELSE NilTime,
         createdAt    |-> 0,
         updatedAt    |-> 0,
         voucherId       |-> NilUUID,
         discountedPrice |-> NilDec,
         originalPrice   |-> BaseAmounts(product).originalPrice,
         taxAmount       |-> BaseAmounts(product).taxAmount,
         totalAmount     |-> BaseAmounts(product).totalAmount,
         product         |-> Nil,
         voucher         |-> Nil]

\* the models.Subscription that CreateSubscription builds
NewSubscription(userId, productId, withTrial, t) ==
    LET product  == products[productId]
        trialEnd == AddMonths(t, TrialMonths)
    IN  [userId       |-> userId,
         productId    |-> productId,
         status       |-> Active,
         startDate    |-> IF withTrial THEN trialEnd ELSE t,
         endDate      |-> IF withTrial
                          THEN AddMonths(trialEnd, product.durationMonths)
                          ELSE AddMonths(t, product.durationMonths),
         trialEndDate |-> IF withTrial THEN SomeTime(trialEnd) ELSE NilTime,
         createdAt    |-> 0,
         updatedAt    |-> 0,
         voucherId       |-> NilUUID,
         discountedPrice |-> NilDec,
         originalPrice   |-> BaseAmounts(product).originalPrice,
         taxAmount       |-> BaseAmounts(product).taxAmount,
         totalAmount     |-> BaseAmounts(product).totalAmount,
         product         |-> Nil,
         voucher         |-> Nil]

\* VoucherRepository.GetByCode: WHERE code = $1, the ids of the matching rows
VouchersByCode(code) == {v \in DOMAIN vouchers : vouchers[v].code = code}

\* variant: a voucher is expired from the instant of its expiry on
validateVoucher_ExpiredAtExpiry(voucher, productId, t) ==
    IF ~voucher.isActive THEN ErrVoucherInactive
    ELSE IF t >= voucher.expiresAt THEN ErrVoucherExpired
    ELSE IF voucher.productId # NilUUID /\ voucher.productId # productId
    THEN ErrVoucherInvalid
    ELSE Ok

\* Service.validateVoucher of the subscription service
validateVoucher(voucher, productId, t) ==
    IF ~voucher.isActive THEN ErrVoucherInactive
    ELSE IF t > voucher.expiresAt THEN ErrVoucherExpired
    ELSE IF voucher.productId # NilUUID /\ voucher.productId # productId
    THEN ErrVoucherInvalid
    ELSE Ok

\* variant: the fixed discount is subtracted the wrong way round
Discount_FixedReversed(voucher, price) ==
    IF voucher.discountType = DiscountTypeFixed
    THEN DecSub(voucher.discountValue, price)
    ELSE DecSub(price, DecMul(price, DecDiv100(voucher.discountValue)))

\* variant: the percentage is not divided by 100
Discount_PercentNotDivided(voucher, price) ==
    IF voucher.discountType = DiscountTypeFixed
    THEN DecSub(price, voucher.discountValue)
    ELSE DecSub(price, DecMul(price, voucher.discountValue))

\* the price less the discount of the voucher, before it is clamped
Discount(voucher, price) ==
    IF voucher.discountType = DiscountTypeFixed
    THEN DecSub(price, voucher.discountValue)
    ELSE DecSub(price, DecMul(price, DecDiv100(voucher.discountValue)))

\* variant: a negative price is kept
ClampAtZero_Missing(d) == d

\* if discountedPrice.IsNegative() { discountedPrice = decimal.NewFromInt(0) }
ClampAtZero(d) == IF IsNegative(d) THEN NewFromInt(0) ELSE d

\* variant: the tax is still the tax on the original price
ApplyVoucher_TaxOnOriginal(sub, voucherId, discountedPrice, product) ==
    [sub EXCEPT !.voucherId       = voucherId,
                !.discountedPrice = SomeDec(discountedPrice),
                !.totalAmount     = DecAdd(discountedPrice, sub.taxAmount)]

\* the voucher id, the discounted price and the amounts recomputed from it
ApplyVoucher(sub, voucherId, discountedPrice, product) ==
    [sub EXCEPT !.voucherId       = voucherId,
                !.discountedPrice = SomeDec(discountedPrice),
                !.taxAmount       = DecMul(discountedPrice, product.taxRate),
                !.totalAmount     = DecAdd(discountedPrice,
                                           DecMul(discountedPrice, product.taxRate))]

\* variant: a voucher that cannot be used is ignored and the subscription is
\* created at the full price
WithVoucher_FallsBack(sub, voucherCode, product, productId, t) ==
    LET found     == VouchersByCode(voucherCode)
        voucherId == CHOOSE v \in found : TRUE
        voucher   == vouchers[voucherId]
    IN  IF voucherCode = NoCode \/ found = {}
           \/ validateVoucher(voucher, productId, t) # Ok
        THEN [err |-> Ok, sub |-> sub]
        ELSE [err |-> Ok,
              sub |-> ApplyVoucher(sub, voucherId,
                                   ClampAtZero(Discount(voucher, product.price)),
                                   product)]

\* the voucher branch of CreateSubscription: the error it returns, or the
\* subscription with the voucher applied
WithVoucher(sub, voucherCode, product, productId, t) ==
    LET found     == VouchersByCode(voucherCode)
        voucherId == CHOOSE v \in found : TRUE
        voucher   == vouchers[voucherId]
        err       == validateVoucher(voucher, productId, t)
    IN  IF voucherCode = NoCode
        THEN [err |-> Ok, sub |-> sub]
        ELSE IF found = {}
        THEN [err |-> ErrInvalidVoucherCode, sub |-> sub]
        ELSE IF err # Ok
        THEN [err |-> err, sub |-> sub]
        ELSE [err |-> Ok,
              sub |-> ApplyVoucher(sub, voucherId,
                                   ClampAtZero(Discount(voucher, product.price)),
                                   product)]

CreateSubscription(userId, productId, voucherCode, withTrial) ==
    /\ Cardinality(DOMAIN subs) < MaxSubs
    /\ UNCHANGED <<users, now, products, vouchers, statusWrites, calls, procVars>>
    /\ IF Len(Validate(userId, productId)) > 0
       THEN RespondInvalid("create", Validate(userId, productId))
            /\ UNCHANGED <<subs, changes>>
       ELSE IF GetProduct(productId) # Ok
       THEN Respond("create", 0, NoState, GetProduct(productId))
            /\ UNCHANGED <<subs, changes>>
       ELSE LET priced == WithVoucher(NewSubscription(userId, productId, withTrial, now),
                                      voucherCode, products[productId], productId, now)
            IN  IF priced.err # Ok
                THEN Respond("create", 0, NoState, priced.err)
                     /\ UNCHANGED <<subs, changes>>
                ELSE \E outcome \in CreateOutcomes :
                       LET r == RepoCreate(NewId, priced.sub, now, outcome)
                       IN  /\ subs' = r.subs
                           /\ changes' = r.changes
                           /\ IF r.err
                              THEN Respond("create", NewId, NoState, ErrCreateFailed)
                              ELSE RespondWith("create", NewId,
                                               [priced.sub EXCEPT
                                                  !.createdAt = now,
                                                  !.updatedAt = now,
                                                  !.product = products[productId]])

\* ------------------------------------------- transitions, one call per step
\* PauseSubscription / UnpauseSubscription / CancelSubscription share one
\* shape: GetByID, guard, Update, CreateStateChange.  Either storage write
\* may fail (updateOk, logOk).
Transition(op, id) ==
    /\ calls' = calls + 1
    /\ UNCHANGED <<users, now, products, vouchers, procVars>>
    /\ IF GetByIDError(id) # Ok
       THEN Respond(op, id, NoState, GetByIDError(id))
            /\ UNCHANGED <<subs, changes, statusWrites>>
       ELSE IF Guard(op, subs[id], now) # Proceed
       THEN Respond(op, id, subs[id].status, Guard(op, subs[id], now))
            /\ UNCHANGED <<subs, changes, statusWrites>>
       ELSE \E updateOk, logOk \in BOOLEAN :
              LET previousState == subs[id].status
                  subscription  == [subs[id] EXCEPT !.status = NewStatus(op)]
                  stateChange   == StateChange(id, previousState, subscription.status,
                                               now, Reason(op))
              IN  IF ~updateOk
                  THEN Respond(op, id, previousState, ErrUpdateFailed)
                       /\ UNCHANGED <<subs, changes, statusWrites>>
                  ELSE /\ subs' = RepoUpdate(id, subscription, now)
                       /\ statusWrites' =
                            [statusWrites EXCEPT ![id] =
                               IF subs'[id].status # subs[id].status THEN @ + 1 ELSE @]
                       /\ IF logOk
                          THEN changes' = Append(changes, stateChange)
                               /\ Respond(op, id, previousState, Ok)
                          ELSE UNCHANGED changes
                               /\ Respond(op, id, previousState, ErrLogFailed)

PauseSubscription(id) ==
    /\ calls < MaxCalls
    /\ Transition("pause", id)

UnpauseSubscription(id) ==
    /\ calls < MaxCalls
    /\ Transition("unpause", id)

CancelSubscription(id) ==
    /\ calls < MaxCalls
    /\ Transition("cancel", id)

Create ==
    \E userId \in UserIds \cup {NilUUID}, productId \in ProductIds \cup {NilUUID},
       voucherCode \in VoucherCodes, withTrial \in BOOLEAN :
        CreateSubscription(userId, productId, voucherCode, withTrial)

Next ==
    \/ Tick
    \/ Create
    \/ \E id \in SubIds : PauseSubscription(id)
    \/ \E id \in SubIds : UnpauseSubscription(id)
    \/ \E id \in SubIds : CancelSubscription(id)

Spec == Init /\ [][Next]_vars

\* ------------------------------------------- reads and voucher validation
\* SubscriptionRepository.GetByID: the columns of the SELECT are scanned into
\* a new models.Subscription; its other fields keep their zero value
GetByID(id) ==
    [userId          |-> subs[id].userId,
     productId       |-> subs[id].productId,
     status          |-> subs[id].status,
     startDate       |-> subs[id].startDate,
     endDate         |-> subs[id].endDate,
     trialEndDate    |-> subs[id].trialEndDate,
     originalPrice   |-> subs[id].originalPrice,
     taxAmount       |-> subs[id].taxAmount,
     totalAmount     |-> subs[id].totalAmount,
     createdAt       |-> subs[id].createdAt,
     updatedAt       |-> subs[id].updatedAt,
     voucherId       |-> NilUUID,
     discountedPrice |-> NilDec,
     product         |-> Nil,
     voucher         |-> Nil]

\* Service.GetSubscriptionByID
GetSubscriptionByID(id) ==
    /\ UNCHANGED <<users, now, products, vouchers, subs, changes, statusWrites, calls, procVars>>
    /\ IF GetByIDError(id) # Ok
       THEN Respond("get", id, NoState, GetByIDError(id))
       ELSE RespondWith("get", id, GetByID(id))

\* variant: the scope of the voucher is checked first
ValidateVoucherChecks_ScopeFirst(voucher, productId, t) ==
    IF voucher.productId # NilUUID /\ voucher.productId # productId
    THEN ErrVoucherInvalid
    ELSE IF ~voucher.isActive THEN ErrVoucherInactive
    ELSE IF t > voucher.expiresAt THEN ErrVoucherExpired
    ELSE Ok

\* the checks of Service.ValidateVoucher of the voucher service
ValidateVoucherChecks(voucher, productId, t) ==
    IF ~voucher.isActive THEN ErrVoucherInactive
    ELSE IF t > voucher.expiresAt THEN ErrVoucherExpired
    ELSE IF voucher.productId # NilUUID /\ voucher.productId # productId
    THEN ErrVoucherInvalid
    ELSE Ok

\* Service.ValidateVoucher of the voucher service
ValidateVoucher(code, productId) ==
    /\ UNCHANGED <<users, now, products, vouchers, subs, changes, statusWrites, calls, procVars>>
    /\ LET found     == VouchersByCode(ToUpper(code))
           voucherId == CHOOSE v \in found : TRUE
           voucher   == vouchers[voucherId]
           err       == ValidateVoucherChecks(voucher, productId, now)
       IN  IF found = {}
           THEN Respond("validate", 0, NoState, ErrVoucherNotFound)
           ELSE IF err # Ok
           THEN Respond("validate", 0, NoState, err)
           ELSE RespondWith("validate", 0, [id |-> voucherId] @@ voucher)

\* the pricing specification follows the first subscription: it is created,
\* with or without a voucher, and read back, and vouchers are validated
NextPricing ==
    \/ Tick
    \/ subs = <<>> /\ Create
    \/ \E id \in SubIds : GetSubscriptionByID(id)
    \/ \E code \in VoucherCodes, productId \in ProductIds : ValidateVoucher(code, productId)

SpecPricing == InitPricing /\ [][NextPricing]_vars

\* ------------------------------------------------- product administration
\* strings.TrimSpace on a sequence of characters
RECURSIVE TrimSpace(_)
TrimSpace(str) ==
    IF str = <<>> THEN str
    ELSE IF Head(str) = " " THEN TrimSpace(Tail(str))
    ELSE IF str[Len(str)] = " " THEN TrimSpace(SubSeq(str, 1, Len(str) - 1))
    ELSE str

\* inputs of CreateProduct and UpdateProduct: a blank and a proper name, a
\* negative, a sub-cent and a positive price, durations around zero, a
\* negative and a zero tax rate
ProductInputs ==
    [name           : {<<" ">>, <<"B">>},
     price          : {Dec(-1, 2), Dec(4, 3), Dec(10000, 2)},
     durationMonths : {0, 1},
     taxRate        : {Dec(-1, 2), Dec(0, 2)},
     isActive       : BOOLEAN]

\* variant: a duration of zero months is accepted
CreateProductInputValidate_ZeroDuration(input) ==
    (IF TrimSpace(input.name) = <<>> THEN <<"name">> ELSE <<>>)
      \o (IF IsNegative(input.price) THEN <<"price">> ELSE <<>>)
      \o (IF input.durationMonths < 0 THEN <<"duration_months">> ELSE <<>>)
      \o (IF IsNegative(input.taxRate) THEN <<"tax_rate">> ELSE <<>>)

\* CreateProductInput.Validate
CreateProductInputValidate(input) ==
    (IF TrimSpace(input.name) = <<>> THEN <<"name">> ELSE <<>>)
      \o (IF IsNegative(input.price) THEN <<"price">> ELSE <<>>)
      \o (IF input.durationMonths <= 0 THEN <<"duration_months">> ELSE <<>>)
      \o (IF IsNegative(input.taxRate) THEN <<"tax_rate">> ELSE <<>>)

\* UpdateProductInput.Validate
UpdateProductInputValidate(id, input) ==
    (IF id = NilUUID THEN <<"id">> ELSE <<>>)
      \o (IF TrimSpace(input.name) = <<>> THEN <<"name">> ELSE <<>>)
      \o (IF IsNegative(input.price) THEN <<"price">> ELSE <<>>)
      \o (IF input.durationMonths <= 0 THEN <<"duration_months">> ELSE <<>>)
      \o (IF IsNegative(input.taxRate) THEN <<"tax_rate">> ELSE <<>>)

\* the row of table products that an INSERT or UPDATE writes: price is a
\* DECIMAL(10, 2) and tax_rate a DECIMAL(5, 2) column
ProductRow(product) ==
    [name           |-> product.name,
     price          |-> RoundTo(product.price, 2),
     durationMonths |-> product.durationMonths,
     taxRate        |-> RoundTo(product.taxRate, 2),
     isActive       |-> product.isActive]

\* uuid.New() for a product
NewProductId == CHOOSE p \in ProductIds : p \notin DOMAIN products

\* what the calls of the product service leave alone
ProductFrame ==
    /\ calls < MaxAdminCalls
    /\ calls' = calls + 1
    /\ UNCHANGED <<users, now, vouchers, subs, changes, statusWrites, procVars>>

\* Service.CreateProduct
CreateProduct(input) ==
    /\ ProductFrame
    /\ ProductIds \ DOMAIN products # {}
    /\ IF Len(CreateProductInputValidate(input)) > 0
       THEN RespondInvalid("createProduct", CreateProductInputValidate(input))
            /\ UNCHANGED products
       ELSE \E insertOk \in BOOLEAN :
              IF ~insertOk
              THEN Respond("createProduct", 0, NoState, Wrap(ErrCreateProduct, ErrStorage))
                   /\ UNCHANGED products
              ELSE /\ products' = (NewProductId :> ProductRow(input)) @@ products
                   /\ RespondWith("createProduct", 0, [id |-> NewProductId] @@ input)

\* Service.UpdateProduct
UpdateProduct(id, input) ==
    /\ ProductFrame
    /\ IF Len(UpdateProductInputValidate(id, input)) > 0
       THEN RespondInvalid("updateProduct", UpdateProductInputValidate(id, input))
            /\ UNCHANGED products
       ELSE IF id \notin DOMAIN products
       THEN Respond("updateProduct", 0, NoState, ErrProductNotFound)
            /\ UNCHANGED products
       ELSE \E updateOk \in BOOLEAN :
              IF ~updateOk
              THEN Respond("updateProduct", 0, NoState, Wrap(ErrUpdateProduct, ErrStorage))
                   /\ UNCHANGED products
              ELSE /\ products' = [products EXCEPT ![id] = ProductRow(input)]
                   /\ RespondWith("updateProduct", 0, [id |-> id] @@ input)

\* Service.DeleteProduct: ProductRepository.Delete
DeleteProduct(id) ==
    /\ ProductFrame
    /\ IF id \notin DOMAIN products
       THEN Respond("deleteProduct", 0, NoState, ErrProductNotFound)
            /\ UNCHANGED products
       ELSE \E deleteOk \in BOOLEAN :
              IF ~deleteOk
              THEN Respond("deleteProduct", 0, NoState, ErrStorage)
                   /\ UNCHANGED products
              ELSE /\ products' = [p \in DOMAIN products \ {id} |-> products[p]]
                   /\ Respond("deleteProduct", 0, NoState, Ok)

\* the product routes, called one at a time
NextProducts ==
    \/ \E input \in ProductInputs : CreateProduct(input)
    \/ \E id \in ProductIds \cup {NilUUID}, input \in ProductInputs : UpdateProduct(id, input)
    \/ \E id \in ProductIds \cup {NilUUID} : DeleteProduct(id)

SpecProducts == Init /\ [][NextProducts]_vars

\* ------------------------------------------------- voucher administration
\* the text of the error lib/pq returns when an INSERT or UPDATE breaks the
\* unique constraint of that name
PqUniqueViolation(constraint) ==
    "pq: duplicate key value violates unique constraint \"" \o constraint \o "\""

\* isPgUniqueViolation: the whole text of the error is compared
isPgUniqueViolation(err) ==
    err # "" /\ err = "pq: duplicate key value violates unique constraint"

\* Decimal.GreaterThan
GreaterThan(a, b) == Rescale(a, MaxOf(a.e, b.e)) > Rescale(b, MaxOf(a.e, b.e))

\* inputs of CreateVoucher and UpdateVoucher: a blank, a lower-case and an
\* upper-case code, a type that does not exist, values below zero, at 100
\* and just above 100, a stored and an unknown product, an expiry at instant
\* 0, which lies in the past when the clock shows 1
VoucherInputs ==
    [code          : {<<" ">>, <<"v", "1">>, <<"V", "2">>},
     discountType  : {DiscountTypeFixed, DiscountTypePercentage, "bogus"},
     discountValue : {Dec(-1, 0), Dec(100, 0), Dec(10001, 2)},
     productId     : {"p1", "p3"},
     isActive      : {TRUE},
     expiresAt     : {0}]

\* variant: a percentage above 100 is accepted
CreateVoucherInputValidate_PercentUnchecked(input, t) ==
    (IF TrimSpace(input.code) = <<>> THEN <<"code">> ELSE <<>>)
      \o (IF input.discountType \notin {DiscountTypeFixed, DiscountTypePercentage}
          THEN <<"discount_type">> ELSE <<>>)
      \o (IF IsNegative(input.discountValue) THEN <<"discount_value">> ELSE <<>>)
      \o (IF input.expiresAt < t THEN <<"expires_at">> ELSE <<>>)

\* CreateVoucherInput.Validate at instant t
CreateVoucherInputValidate(input, t) ==
    (IF TrimSpace(input.code) = <<>> THEN <<"code">> ELSE <<>>)
      \o (IF input.discountType \notin {DiscountTypeFixed, DiscountTypePercentage}
          THEN <<"discount_type">> ELSE <<>>)
      \o (IF IsNegative(input.discountValue) THEN <<"discount_value">> ELSE <<>>)
      \o (IF /\ input.discountType = DiscountTypePercentage
             /\ GreaterThan(input.discountValue, NewFromInt(100))
          THEN <<"discount_value">> ELSE <<>>)
      \o (IF input.expiresAt < t THEN <<"expires_at">> ELSE <<>>)

\* UpdateVoucherInput.Validate
UpdateVoucherInputValidate(id, input) ==
    (IF id = NilUUID THEN <<"id">> ELSE <<>>)
      \o (IF TrimSpace(input.code) = <<>> THEN <<"code">> ELSE <<>>)
      \o (IF input.discountType \notin {DiscountTypeFixed, DiscountTypePercentage}
          THEN <<"discount_type">> ELSE <<>>)
      \o (IF IsNegative(input.discountValue) THEN <<"discount_value">> ELSE <<>>)
      \o (IF /\ input.discountType = DiscountTypePercentage
             /\ GreaterThan(input.discountValue, NewFromInt(100))
          THEN <<"discount_value">> ELSE <<>>)

\* the models.Voucher that CreateVoucher and UpdateVoucher store
VoucherOf(input) ==
    Voucher(ToUpper(input.code), input.discountType, input.discountValue,
            input.productId, input.isActive, input.expiresAt)

\* the error of an INSERT or UPDATE that would store this code in the row of
\* this id, "" when there is none: the code of a voucher is unique
VoucherWriteError(id, code) ==
    IF \E v \in DOMAIN vouchers \ {id} : vouchers[v].code = code
    THEN LET err == PqUniqueViolation("vouchers_code_key")
         IN  IF isPgUniqueViolation(err) THEN ErrVoucherCodeExists ELSE err
    ELSE ""

\* uuid.New() for a voucher
NewVoucherId == CHOOSE v \in VoucherIds : v \notin DOMAIN vouchers

\* what the calls of the voucher service leave alone
VoucherFrame ==
    /\ calls < MaxAdminCalls
    /\ calls' = calls + 1
    /\ UNCHANGED <<users, now, products, subs, changes, statusWrites, procVars>>

\* Service.CreateVoucher
CreateVoucher(input) ==
    /\ VoucherFrame
    /\ VoucherIds \ DOMAIN vouchers # {}
    /\ IF Len(CreateVoucherInputValidate(input, now)) > 0
       THEN RespondInvalid("createVoucher", CreateVoucherInputValidate(input, now))
            /\ UNCHANGED vouchers
       ELSE IF input.productId # NilUUID /\ input.productId \notin DOMAIN products
       THEN Respond("createVoucher", 0, NoState, Wrap(ErrInvalidProductID, ErrProductNotFound))
            /\ UNCHANGED vouchers
       ELSE IF VoucherWriteError(NewVoucherId, VoucherOf(input).code) # ""
       THEN Respond("createVoucher", 0, NoState,
                    Wrap(ErrCreateVoucher,
                         VoucherWriteError(NewVoucherId, VoucherOf(input).code)))
            /\ UNCHANGED vouchers
       ELSE \E insertOk \in BOOLEAN :
              IF ~insertOk
              THEN Respond("createVoucher", 0, NoState, Wrap(ErrCreateVoucher, ErrStorage))
                   /\ UNCHANGED vouchers
              ELSE /\ vouchers' = (NewVoucherId :> VoucherOf(input)) @@ vouchers
                   /\ RespondWith("createVoucher", 0,
                                   [id |-> NewVoucherId] @@ VoucherOf(input))

\* Service.UpdateVoucher
UpdateVoucher(id, input) ==
    /\ VoucherFrame
    /\ IF Len(UpdateVoucherInputValidate(id, input)) > 0
       THEN RespondInvalid("updateVoucher", UpdateVoucherInputValidate(id, input))
            /\ UNCHANGED vouchers
       ELSE IF id \notin DOMAIN vouchers
       THEN Respond("updateVoucher", 0, NoState, ErrVoucherNotFound)
            /\ UNCHANGED vouchers
       ELSE IF input.productId # NilUUID /\ input.productId \notin DOMAIN products
       THEN Respond("updateVoucher", 0, NoState, Wrap(ErrInvalidProductID, ErrProductNotFound))
            /\ UNCHANGED vouchers
       ELSE IF VoucherWriteError(id, VoucherOf(input).code) # ""
       THEN Respond("updateVoucher", 0, NoState,
                    Wrap(ErrUpdateVoucher, VoucherWriteError(id, VoucherOf(input).code)))
            /\ UNCHANGED vouchers
       ELSE \E updateOk \in BOOLEAN :
              IF ~updateOk
              THEN Respond("updateVoucher", 0, NoState, Wrap(ErrUpdateVoucher, ErrStorage))
                   /\ UNCHANGED vouchers
              ELSE /\ vouchers' = [vouchers EXCEPT ![id] = VoucherOf(input)]
                   /\ RespondWith("updateVoucher", 0, [id |-> id] @@ VoucherOf(input))

\* the voucher administration starts at instant 0 or 1 with no voucher
InitVouchers ==
    /\ now \in {0, 1}
    /\ products = [p \in {"p1", "p2"} |->
                     [name |-> <<"B">>,
                      durationMonths |-> IF p = "p1" THEN 2 ELSE 1, isActive |-> (p = "p1"),
                      price |-> Dec(10000, 2), taxRate |-> Dec(20, 2)]]
    /\ vouchers = <<>>
    /\ users = <<>>
    /\ subs = <<>>
    /\ changes = <<>>
    /\ statusWrites = [id \in SubIds |-> 0]
    /\ calls = 0
    /\ last = NoCall
    /\ pc = [p \in Procs |-> "idle"]
    /\ req = [p \in Procs |-> NoReq]
    /\ loc = [p \in Procs |-> NoLoc]
    /\ stch = [p \in Procs |-> NoChange]

\* the admin voucher routes, called one at a time
NextVouchers ==
    \/ \E input \in VoucherInputs : CreateVoucher(input)
    \/ \E id \in {"v1", "v2", NilUUID}, input \in VoucherInputs : UpdateVoucher(id, input)

SpecVouchers == InitVouchers /\ [][NextVouchers]_vars

\* subscription_state_changes.subscription_id REFERENCES subscriptions(id):
\* a state change can be inserted only for a stored subscription
ForeignKeyHolds(stateChange) == stateChange.subscriptionId \in DOMAIN subs

\* --------------------------- transitions as interleaved requests (SpecConc)
\* a request is done: its locals are dropped and its result is returned
Return(p, was, ret) ==
    /\ pc' = [pc EXCEPT ![p] = "idle"]
    /\ req' = [req EXCEPT ![p] = NoReq]
    /\ loc' = [loc EXCEPT ![p] = NoLoc]
    /\ stch' = [stch EXCEPT ![p] = NoChange]
    /\ Respond(req[p].op, req[p].id, was, ret)

\* s.repo.GetByID(ctx, id)
ReqGetByID(p, op, id) ==
    /\ pc[p] = "idle"
    /\ calls < MaxConcCalls
    /\ calls' = calls + 1
    /\ UNCHANGED <<users, now, products, vouchers, subs, changes, statusWrites, stch>>
    /\ IF GetByIDError(id) # Ok
       THEN Respond(op, id, NoState, GetByIDError(id)) /\ UNCHANGED <<pc, req, loc>>
       ELSE /\ pc' = [pc EXCEPT ![p] = "guard"]
            /\ req' = [req EXCEPT ![p] = [op |-> op, id |-> id]]
            /\ loc' = [loc EXCEPT ![p] = subs[id]]
            /\ UNCHANGED last

\* the guard on the copy that was read, then the new status and the
\* state change record are prepared on the request's locals
ReqGuard(p) ==
    /\ pc[p] = "guard"
    /\ UNCHANGED <<users, now, products, vouchers, subs, changes, statusWrites, calls>>
    /\ IF Guard(req[p].op, loc[p], now) # Proceed
       THEN Return(p, loc[p].status, Guard(req[p].op, loc[p], now))
       ELSE /\ pc' = [pc EXCEPT ![p] = "update"]
            /\ loc' = [loc EXCEPT ![p].status = NewStatus(req[p].op)]
            /\ stch' = [stch EXCEPT ![p] =
                          StateChange(req[p].id, loc[p].status, NewStatus(req[p].op),
                                      now, Reason(req[p].op))]
            /\ UNCHANGED <<req, last>>

\* s.repo.Update(ctx, subscription)
ReqUpdate(p) ==
    /\ pc[p] = "update"
    /\ UNCHANGED <<users, now, products, vouchers, changes, calls>>
    /\ \E updateOk \in BOOLEAN :
         IF ~updateOk
         THEN Return(p, stch[p].previousState, ErrUpdateFailed) /\ UNCHANGED <<subs, statusWrites>>
         ELSE IF req[p].id \notin DOMAIN subs
         THEN Return(p, stch[p].previousState, ErrUpdateFailed) /\ UNCHANGED <<subs, statusWrites>>
         ELSE /\ subs' = RepoUpdate(req[p].id, loc[p], now)
              /\ statusWrites' =
                   [statusWrites EXCEPT ![req[p].id] =
                      IF subs'[req[p].id].status # subs[req[p].id].status
                      THEN @ + 1 ELSE @]
              /\ pc' = [pc EXCEPT ![p] = "log"]
              /\ UNCHANGED <<req, loc, stch, last>>

\* s.repo.CreateStateChange(ctx, stateChange)
ReqCreateStateChange(p) ==
    /\ pc[p] = "log"
    /\ UNCHANGED <<users, now, products, vouchers, subs, statusWrites, calls>>
    /\ \E logOk \in BOOLEAN :
         IF logOk /\ ForeignKeyHolds(stch[p])
         THEN changes' = Append(changes, stch[p]) /\ Return(p, stch[p].previousState, Ok)
         ELSE UNCHANGED changes /\ Return(p, stch[p].previousState, ErrLogFailed)

NextConc ==
    \/ Tick
    \/ Create
    \/ \E p \in Procs, op \in Ops, id \in SubIds : ReqGetByID(p, op, id)
    \/ \E p \in Procs : ReqGuard(p)
    \/ \E p \in Procs : ReqUpdate(p)
    \/ \E p \in Procs : ReqCreateStateChange(p)

SpecConc == Init /\ [][NextConc]_vars

\* ------------------------------ requests that run to their end (SpecCancel)
\* the tables after CreateSubscription has succeeded once per id at time 0,
\* either with a trial, or without one and followed by a pause
InitCancel ==
    /\ now = 0
    /\ products = [p \in {"p1", "p2"} |->
                     [name |-> <<"B">>,
                      durationMonths |-> IF p = "p1" THEN 2 ELSE 1, isActive |-> (p = "p1"),
                      price |-> Dec(10000, 2), taxRate |-> Dec(20, 2)]]
    /\ vouchers = <<>>
    /\ users = <<>>
    /\ \E paused \in BOOLEAN :
         /\ subs = [id \in SubIds |->
                     [InsertedRow(NewSubscription("u1", "p1", ~paused, 0), 0)
                        EXCEPT !.status = IF paused THEN NewStatus("pause") ELSE Active]]
         /\ changes = [id \in SubIds |-> StateChange(id, NoState, Active, 0, ReasonCreated)]
                        \o IF paused
                           THEN [id \in SubIds |->
                                   StateChange(id, Active, NewStatus("pause"), 0,
                                               Reason("pause"))]
                           ELSE <<>>
         /\ statusWrites = [id \in SubIds |-> IF paused THEN 1 ELSE 0]
    /\ calls = 0
    /\ last = NoCall
    /\ pc = [p \in Procs |-> "idle"]
    /\ req = [p \in Procs |-> NoReq]
    /\ loc = [p \in Procs |-> NoLoc]
    /\ stch = [p \in Procs |-> NoChange]

\* a transition request starts
StartRequest(p, op, id) ==
    /\ calls < MaxFairCalls
    /\ ReqGetByID(p, op, id)

NextCancel ==
    \/ Tick
    \/ \E p \in Procs, op \in Ops, id \in SubIds : StartRequest(p, op, id)
    \/ \E p \in Procs : ReqGuard(p)
    \/ \E p \in Procs : ReqUpdate(p)
    \/ \E p \in Procs : ReqCreateStateChange(p)

\* a request that has started runs on: the goroutine serving it is scheduled
\* again and each storage call returns
RequestsRunOn ==
    \A p \in Procs :
        /\ WF_vars(ReqGuard(p))
        /\ WF_vars(ReqUpdate(p))
        /\ WF_vars(ReqCreateStateChange(p))

SpecCancel == InitCancel /\ [][NextCancel]_vars /\ RequestsRunOn

\* ------------------------------------------ SubscriptionRepository.Delete
ErrDeleteFailed == "delete failed"
ErrForeignKey   == "violates foreign key constraint"

\* the points at which the transaction of SubscriptionRepository.Delete ends
DeleteOutcomes == {"ErrDeleteSubscription", "ErrCommit", "committed"}

\* variant: the two DELETEs are not in one transaction
RepoDelete_NoTransaction(id, seen, outcome) ==
    LET mine     == {i \in 1..Len(changes) : changes[i].subscriptionId = id}
        gone     == {i \in mine : Cardinality({j \in mine : j <= i}) <= seen}
        kept     == SelectSeq([i \in 1..Len(changes) |-> [at |-> i, rec |-> changes[i]]],
                              LAMBDA e : e.at \notin gone)
        rest     == [i \in 1..Len(kept) |-> kept[i].rec]
    IN  IF outcome = "ErrDeleteSubscription"
        THEN [subs |-> subs, changes |-> rest, err |-> ErrDeleteFailed]
        ELSE IF id \notin DOMAIN subs
        THEN [subs |-> subs, changes |-> rest, err |-> ErrSubscriptionNotFound]
        ELSE IF Cardinality(mine) > seen
        THEN [subs |-> subs, changes |-> rest, err |-> ErrForeignKey]
        ELSE [subs |-> [i \in DOMAIN subs \ {id} |-> subs[i]], changes |-> rest,
              err |-> Ok]

\* SubscriptionRepository.Delete from its second DELETE on: the transaction
\* has deleted the state changes it saw (seen of them); the subscription is
\* deleted unless it is gone (no row affected) or a state change inserted
\* since still refers to it (foreign key); the commit removes the
\* subscription and the state changes together, any error rolls both back
RepoDelete(id, seen, outcome) ==
    LET mine == {i \in 1..Len(changes) : changes[i].subscriptionId = id}
    IN  IF outcome = "ErrDeleteSubscription"
        THEN [subs |-> subs, changes |-> changes, err |-> ErrDeleteFailed]
        ELSE IF id \notin DOMAIN subs
        THEN [subs |-> subs, changes |-> changes, err |-> ErrSubscriptionNotFound]
        ELSE IF Cardinality(mine) > seen
        THEN [subs |-> subs, changes |-> changes, err |-> ErrForeignKey]
        ELSE IF outcome = "ErrCommit"
        THEN [subs |-> subs, changes |-> changes, err |-> ErrDeleteFailed]
        ELSE [subs    |-> [i \in DOMAIN subs \ {id} |-> subs[i]],
              changes |-> SelectSeq(changes, LAMBDA c : c.subscriptionId # id),
              err     |-> Ok]

\* tx.ExecContext(ctx, stateChangeQuery, id): the transaction begins and
\* deletes the state changes of the subscription that are stored now; nobody
\* else sees them gone before the commit.  A second Delete of the same
\* subscription waits for the row locks of the first.
DeleteStateChanges(p, id) ==
    /\ pc[p] = "idle"
    /\ calls < MaxConcCalls
    /\ ~\E q \in Procs : pc[q] = "delete" /\ req[q].id = id
    /\ calls' = calls + 1
    /\ UNCHANGED <<users, now, products, vouchers, subs, changes, statusWrites, stch>>
    /\ \E execOk \in BOOLEAN :
         IF ~execOk
         THEN Respond("delete", id, NoState, ErrDeleteFailed) /\ UNCHANGED <<pc, req, loc>>
         ELSE /\ pc' = [pc EXCEPT ![p] = "delete"]
              /\ req' = [req EXCEPT ![p] = [op |-> "delete", id |-> id]]
              /\ loc' = [loc EXCEPT ![p] = [seen |-> Len(SelectSeq(changes,
                                              LAMBDA c : c.subscriptionId = id))]]
              /\ UNCHANGED last

\* tx.ExecContext(ctx, subscriptionQuery, id) and tx.Commit()
DeleteSubscription(p) ==
    /\ pc[p] = "delete"
    /\ UNCHANGED <<users, now, products, vouchers, statusWrites, calls>>
    /\ \E outcome \in DeleteOutcomes :
         LET r == RepoDelete(req[p].id, loc[p].seen, outcome)
         IN  /\ subs' = r.subs
             /\ changes' = r.changes
             /\ Return(p, NoState, r.err)

\* the tables after a subscription per id has been created at time 0,
\* without trial
InitDelete ==
    /\ now = 0
    /\ products = [p \in {"p1", "p2"} |->
                     [name |-> <<"B">>,
                      durationMonths |-> IF p = "p1" THEN 2 ELSE 1, isActive |-> (p = "p1"),
                      price |-> Dec(10000, 2), taxRate |-> Dec(20, 2)]]
    /\ vouchers = <<>>
    /\ users = <<>>
    /\ subs = [id \in SubIds |-> InsertedRow(NewSubscription("u1", "p1", FALSE, 0), 0)]
    /\ changes = [id \in SubIds |-> StateChange(id, NoState, Active, 0, ReasonCreated)]
    /\ statusWrites = [id \in SubIds |-> 0]
    /\ calls = 0
    /\ last = NoCall
    /\ pc = [p \in Procs |-> "idle"]
    /\ req = [p \in Procs |-> NoReq]
    /\ loc = [p \in Procs |-> NoLoc]
    /\ stch = [p \in Procs |-> NoChange]

\* transition requests and repository deletes interleave within one instant
\* of the clock
NextDelete ==
    \/ \E p \in Procs, op \in Ops, id \in SubIds : ReqGetByID(p, op, id)
    \/ \E p \in Procs : ReqGuard(p)
    \/ \E p \in Procs : ReqUpdate(p)
    \/ \E p \in Procs : ReqCreateStateChange(p)
    \/ \E p \in Procs, id \in SubIds : DeleteStateChanges(p, id)
    \/ \E p \in Procs : DeleteSubscription(p)

SpecDelete == InitDelete /\ [][NextDelete]_vars

\* ------------------------------------- requests through the HTTP handlers
\* the answer of a handler to a user who does not own the subscription
AccessDenied == "access denied"

\* the users the authentication middleware lets through
AuthUsers == {"u1", "u2"}

\* the requests on one subscription that the handlers serve
HandlerOps == {"get", "pause", "unpause", "cancel"}

\* variant: any authenticated user passes
Owns_AnyAuthenticated(subscription, userID) == userID # NilUUID

\* subscription.UserID != userID, negated
Owns(subscription, userID) == subscription.userId = userID

\* the tables after one user has created a subscription per id at time 0,
\* without trial
InitHandlers ==
    /\ now = 0
    /\ products = [p \in {"p1", "p2"} |->
                     [name |-> <<"B">>,
                      durationMonths |-> IF p = "p1" THEN 2 ELSE 1, isActive |-> (p = "p1"),
                      price |-> Dec(10000, 2), taxRate |-> Dec(20, 2)]]
    /\ vouchers = <<>>
    /\ users = <<>>
    /\ \E owner \in AuthUsers :
         subs = [id \in SubIds |-> InsertedRow(NewSubscription(owner, "p1", FALSE, 0), 0)]
    /\ changes = [id \in SubIds |-> StateChange(id, NoState, Active, 0, ReasonCreated)]
    /\ statusWrites = [id \in SubIds |-> 0]
    /\ calls = 0
    /\ last = NoCall
    /\ pc = [p \in Procs |-> "idle"]
    /\ req = [p \in Procs |-> NoReq]
    /\ loc = [p \in Procs |-> NoLoc]
    /\ stch = [p \in Procs |-> NoChange]

\* SubscriptionHandler.GetSubscriptionByID / PauseSubscription /
\* UnpauseSubscription / CancelSubscription up to the service call: the
\* subscription is read, 404 if it is not found, 403 if it is not the
\* authenticated user's
HandleRequest(p, userID, op, id) ==
    /\ pc[p] = "idle"
    /\ calls < MaxHandlerCalls
    /\ calls' = calls + 1
    /\ UNCHANGED <<users, now, products, vouchers, subs, changes, statusWrites, stch, loc>>
    /\ IF GetByIDError(id) # Ok
       THEN Respond(op, id, NoState, GetByIDError(id)) /\ UNCHANGED <<pc, req>>
       ELSE IF ~Owns(GetByID(id), userID)
       THEN Respond(op, id, GetByID(id).status, AccessDenied) /\ UNCHANGED <<pc, req>>
       ELSE IF op = "get"
       THEN RespondWith("get", id, GetByID(id)) /\ UNCHANGED <<pc, req>>
       ELSE /\ pc' = [pc EXCEPT ![p] = "service"]
            /\ req' = [req EXCEPT ![p] = [op |-> op, id |-> id]]
            /\ UNCHANGED last

\* the service call of the handler starts: s.repo.GetByID(ctx, id)
ServiceGetByID(p) ==
    /\ pc[p] = "service"
    /\ UNCHANGED <<users, now, products, vouchers, subs, changes, statusWrites, calls, stch>>
    /\ IF GetByIDError(req[p].id) # Ok
       THEN Return(p, NoState, GetByIDError(req[p].id))
       ELSE /\ pc' = [pc EXCEPT ![p] = "guard"]
            /\ loc' = [loc EXCEPT ![p] = subs[req[p].id]]
            /\ UNCHANGED <<req, last>>

\* the requests interleave within one instant of the clock: the ownership
\* check does not read it
NextHandlers ==
    \/ \E p \in Procs, userID \in AuthUsers, op \in HandlerOps, id \in PairIds :
         HandleRequest(p, userID, op, id)
    \/ \E p \in Procs : ServiceGetByID(p)
    \/ \E p \in Procs : ReqGuard(p)
    \/ \E p \in Procs : ReqUpdate(p)
    \/ \E p \in Procs : ReqCreateStateChange(p)

SpecHandlers == InitHandlers /\ [][NextHandlers]_vars

\* -------------------------------------- registration as interleaved requests
\* inputs of RegisterUser: a blank email and two addresses, a password of
\* fewer than 8 characters and a longer one
RegisterUserInputs ==
    [email    : {<<" ">>, <<"a">>, <<"b">>},
     password : {"short", "long enough"},
     name     : {"N"}]

\* minimum length of a password
MinPasswordLen == 8

\* RegisterUserInput.Validate
RegisterUserInputValidate(input) ==
    (IF TrimSpace(input.email) = <<>> THEN <<"email">> ELSE <<>>)
      \o (IF Len(input.password) < MinPasswordLen THEN <<"password">> ELSE <<>>)

\* UserRepository.GetByEmail: WHERE email = $1, the ids of the matching rows
UsersByEmail(email) == {u \in DOMAIN users : users[u].email = email}

\* hashPassword: the bcrypt hash stands for the password, it is not the
\* password
hashPassword(password) == "bcrypt:" \o password

\* uuid.New() for a user
NewUserId == CHOOSE u \in UserRowIds : u \notin DOMAIN users

\* UserRepository.Create: the error of the INSERT, "" when there is none;
\* column email is UNIQUE
UserRepoCreateError(user) ==
    IF UsersByEmail(user.email) # {}
    THEN LET err == PqUniqueViolation("users_email_key")
         IN  IF isPgUniqueViolation(err) THEN ErrUserAlreadyExists ELSE err
    ELSE ""

\* RegisterUser up to s.userRepo.GetByEmail
RegisterUser(p, input) ==
    /\ pc[p] = "idle"
    /\ calls < MaxRegistrations
    /\ calls' = calls + 1
    /\ UNCHANGED <<users, now, products, vouchers, subs, changes, statusWrites, stch>>
    /\ IF Len(RegisterUserInputValidate(input)) > 0
       THEN RespondInvalid("register", RegisterUserInputValidate(input))
            /\ UNCHANGED <<pc, req, loc>>
       ELSE IF UsersByEmail(input.email) # {}
       THEN Respond("register", 0, NoState, ErrUserAlreadyExists)
            /\ UNCHANGED <<pc, req, loc>>
       ELSE /\ pc' = [pc EXCEPT ![p] = "createUser"]
            /\ req' = [req EXCEPT ![p] = [op |-> "register", id |-> 0]]
            /\ loc' = [loc EXCEPT ![p] = [email    |-> input.email,
                                          password |-> hashPassword(input.password),
                                          name     |-> input.name]]
            /\ UNCHANGED last

\* RegisterUser from s.userRepo.Create on
UserRepoCreate(p) ==
    /\ pc[p] = "createUser"
    /\ UserRowIds \ DOMAIN users # {}
    /\ UNCHANGED <<now, products, vouchers, subs, changes, statusWrites, calls>>
    /\ pc' = [pc EXCEPT ![p] = "idle"]
    /\ req' = [req EXCEPT ![p] = NoReq]
    /\ loc' = [loc EXCEPT ![p] = NoLoc]
    /\ UNCHANGED stch
    /\ IF UserRepoCreateError(loc[p]) # ""
       THEN Respond("register", 0, NoState, Wrap(ErrCreateUser, UserRepoCreateError(loc[p])))
            /\ UNCHANGED users
       ELSE \E insertOk \in BOOLEAN :
              IF ~insertOk
              THEN Respond("register", 0, NoState, Wrap(ErrCreateUser, ErrStorage))
                   /\ UNCHANGED users
              ELSE /\ users' = (NewUserId :> loc[p]) @@ users
                   /\ RespondWith("register", 0,
                                   [id |-> NewUserId] @@ [loc[p] EXCEPT !.password = ""])

\* registrations run concurrently, one storage round trip per step
NextUsers ==
    \/ \E p \in Procs, input \in RegisterUserInputs : RegisterUser(p, input)
    \/ \E p \in Procs : UserRepoCreate(p)

SpecUsers == Init /\ [][NextUsers]_vars

\* ------------------------------- transitions on several subscriptions
\* the tables after CreateSubscription has succeeded once per id at time 0,
\* the first time with a trial: the rows and the creation records are the
\* ones SubscriptionRepository.Create inserts
InitPair ==
    /\ now = 0
    /\ products = [p \in {"p1", "p2"} |->
                     [name |-> <<"B">>,
                      durationMonths |-> IF p = "p1" THEN 2 ELSE 1, isActive |-> (p = "p1"),
                      price |-> Dec(10000, 2), taxRate |-> Dec(20, 2)]]
    /\ vouchers = <<>>
    /\ users = <<>>
    /\ subs = [id \in PairIds |->
                InsertedRow(NewSubscription("u1", "p1", id = 1, 0), 0)]
    /\ changes = [id \in PairIds |-> StateChange(id, NoState, Active, 0, ReasonCreated)]
    /\ statusWrites = [id \in PairIds |-> 0]
    /\ calls = 0
    /\ last = NoCall
    /\ pc = [p \in Procs |-> "idle"]
    /\ req = [p \in Procs |-> NoReq]
    /\ loc = [p \in Procs |-> NoLoc]
    /\ stch = [p \in Procs |-> NoChange]

NextPair ==
    \/ Tick
    \/ \E id \in PairIds : PauseSubscription(id)
    \/ \E id \in PairIds : UnpauseSubscription(id)
    \/ \E id \in PairIds : CancelSubscription(id)

SpecPair == InitPair /\ [][NextPair]_vars

\* ================================================================ properties
StorageErrors == {ErrUpdateFailed, ErrLogFailed}

\* the audit records of one subscription, in insertion order
RecordsOf(id) == SelectSeq(changes, LAMBDA c : c.subscriptionId = id)

\* this step is a transition call op on subscription id
Called(op, id) == calls' = calls + 1 /\ last'.op = op /\ last'.id = id

\* C1: with calls made one at a time, a subscription whose stored status is
\* cancelled stays as it is in every later state: its row and its audit
\* records do not change, pause on it is rejected with not-active and
\* unpause on it with already-paused.
C1_CancelledIsTerminal ==
    [][\A id \in DOMAIN subs :
         subs[id].status = Cancelled =>
           /\ subs'[id] = subs[id]
           /\ SelectSeq(changes', LAMBDA c : c.subscriptionId = id) = RecordsOf(id)
           /\ Called("pause", id) => last'.ret = ErrSubscriptionNotActive
           /\ Called("unpause", id) => last'.ret = ErrSubscriptionAlreadyPaused]_vars

\* a cancelled subscription on which an unpause has just been rejected
C1_Witness ==
    /\ last.op = "unpause"
    /\ last.was = Cancelled
    /\ last.ret = ErrSubscriptionAlreadyPaused
    /\ subs[last.id].status = Cancelled

\* C2: when transition requests on one subscription interleave, no request
\* writes its new status on the basis of a status that another request has
\* replaced since it was read: at every successful Update the stored status
\* is still the one the request's guard was checked against.
C2_NoStaleGuard ==
    [][\A p \in Procs :
         (pc[p] = "update" /\ pc'[p] = "log") =>
            subs[req[p].id].status = stch[p].previousState]_vars

\* C3: the status update and the audit append of a transition are one unit:
\* in every step the stored status of a subscription changes exactly when
\* the matching audit record (previous = old status, new = new status) is
\* appended, and a transition call that returns an error leaves the stored
\* status as it was.
C3_UpdateAndAuditAtomic ==
    [][\A id \in DOMAIN subs :
         /\ (subs'[id].status # subs[id].status)
              <=> /\ Len(changes') = Len(changes) + 1
                  /\ changes'[Len(changes')].subscriptionId = id
                  /\ changes'[Len(changes')].previousState = subs[id].status
                  /\ changes'[Len(changes')].newState = subs'[id].status
         /\ (\E op \in Ops : Called(op, id)) /\ last'.ret # Ok
              => subs'[id].status = subs[id].status]_vars

\* C4: pause on an active subscription that is not in trial (no trial end
\* date, or now at or after it) is never turned away by the guard, and when
\* both storage writes go through it returns success, the stored status is
\* paused and exactly one audit record active -> paused with reason "User
\* requested pause" has been appended.
C4_PauseAccepted ==
    [][\A id \in DOMAIN subs :
         ( /\ Called("pause", id)
           /\ subs[id].status = Active
           /\ (~subs[id].trialEndDate.valid \/ now >= subs[id].trialEndDate.time) )
         => /\ last'.ret \in {Ok} \cup StorageErrors
            /\ last'.ret = Ok =>
                 /\ subs'[id].status = Paused
                 /\ changes' = Append(changes,
                       [subscriptionId |-> id, previousState |-> "active",
                        newState |-> "paused", changedAt |-> now,
                        reason |-> "User requested pause"])]_vars

\* a subscription paused at the very instant its trial ended
C4_Witness ==
    /\ last.op = "pause"
    /\ last.ret = Ok
    /\ subs[last.id].status = Paused
    /\ subs[last.id].trialEndDate.valid
    /\ subs[last.id].updatedAt = subs[last.id].trialEndDate.time
    /\ changes[Len(changes)].newState = Paused

\* C5: pause on an active subscription whose trial end date lies after the
\* current time returns the in-trial error; the row and the audit records
\* are untouched.
C5_PauseInTrialRejected ==
    [][\A id \in DOMAIN subs :
         ( /\ Called("pause", id)
           /\ subs[id].status = Active
           /\ subs[id].trialEndDate.valid
           /\ now < subs[id].trialEndDate.time )
         => /\ last'.ret = ErrSubscriptionInTrial
            /\ subs' = subs
            /\ changes' = changes]_vars

\* an active subscription in trial on which pause has just been rejected
C5_Witness ==
    /\ last.op = "pause"
    /\ last.ret = ErrSubscriptionInTrial
    /\ subs[last.id].status = Active
    /\ now < subs[last.id].trialEndDate.time

\* C6: pause on a paused or cancelled subscription returns not-active and
\* changes neither the row nor the audit records, also when the trial end
\* date still lies ahead (the status check comes first).
C6_PauseNotActiveRejected ==
    [][\A id \in DOMAIN subs :
         (Called("pause", id) /\ subs[id].status \in {Paused, Cancelled})
         => /\ last'.ret = ErrSubscriptionNotActive
            /\ subs' = subs
            /\ changes' = changes]_vars

\* a cancelled subscription still in trial on which pause has been rejected
C6_Witness ==
    /\ last.op = "pause"
    /\ last.ret = ErrSubscriptionNotActive
    /\ subs[last.id].status = Cancelled
    /\ subs[last.id].trialEndDate.valid
    /\ now < subs[last.id].trialEndDate.time

\* C7: unpause on a paused subscription is never turned away by the guard,
\* and when both storage writes go through it returns success, the stored
\* status is active and exactly one audit record paused -> active with
\* reason "User requested unpause" has been appended; unpause on an active
\* or cancelled subscription returns already-paused and changes nothing.
C7_Unpause ==
    [][\A id \in DOMAIN subs :
         Called("unpause", id) =>
           IF subs[id].status = Paused
           THEN /\ last'.ret \in {Ok} \cup StorageErrors
                /\ last'.ret = Ok =>
                     /\ subs'[id].status = Active
                     /\ changes' = Append(changes,
                           [subscriptionId |-> id, previousState |-> "paused",
                            newState |-> "active", changedAt |-> now,
                            reason |-> "User requested unpause"])
           ELSE /\ last'.ret = ErrSubscriptionAlreadyPaused
                /\ subs' = subs
                /\ changes' = changes]_vars

\* a subscription that has just been unpaused
C7_Witness ==
    /\ last.op = "unpause"
    /\ last.was = Paused
    /\ last.ret = Ok
    /\ subs[last.id].status = Active
    /\ changes[Len(changes)].previousState = Paused

\* C8: cancel on an active or paused subscription is never turned away, and
\* when both storage writes go through it returns success, the stored status
\* is cancelled and exactly one audit record (previous = the status before,
\* new = cancelled, reason "User requested cancellation") has been appended;
\* cancel on a cancelled subscription returns success and writes nothing.
C8_Cancel ==
    [][\A id \in DOMAIN subs :
         Called("cancel", id) =>
           IF subs[id].status \in {Active, Paused}
           THEN /\ last'.ret \in {Ok} \cup StorageErrors
                /\ last'.ret = Ok =>
                     /\ subs'[id].status = Cancelled
                     /\ changes' = Append(changes,
                           [subscriptionId |-> id, previousState |-> subs[id].status,
                            newState |-> "cancelled", changedAt |-> now,
                            reason |-> "User requested cancellation"])
           ELSE /\ last'.ret = Ok
                /\ subs' = subs
                /\ changes' = changes
                /\ statusWrites' = statusWrites]_vars

\* a second cancel has returned success on a subscription that had been
\* cancelled from paused
C8_Witness ==
    /\ last.op = "cancel"
    /\ last.was = Cancelled
    /\ last.ret = Ok
    /\ subs[last.id].status = Cancelled
    /\ changes[Len(changes)].previousState = Paused
    /\ changes[Len(changes)].newState = Cancelled

\* C9: the audit records of a subscription number one (the creation record)
\* plus the calls that changed its stored status.
C9_AuditCount ==
    \A id \in DOMAIN subs :
        Len(RecordsOf(id)) = 1 + statusWrites[id]

\* a subscription and its creation record are stored together or not at
\* all: a stored subscription has exactly one audit record with empty
\* previous state, which is its first, has new state active and reason
\* "Subscription created"; an id that is not stored has no audit record
CreationRecordStored ==
    \A id \in SubIds :
        LET recs == RecordsOf(id)
        IN  IF id \in DOMAIN subs
            THEN /\ Len(recs) >= 1
                 /\ recs[1] = [subscriptionId |-> id, previousState |-> "",
                               newState |-> "active",
                               changedAt |-> subs[id].createdAt,
                               reason |-> "Subscription created"]
                 /\ \A i \in 2..Len(recs) : recs[i].previousState # ""
            ELSE recs = <<>>

\* a create that returns success adds the row and exactly its creation
\* record; a create that returns an error adds nothing
CreateStep ==
    [][(last'.op = "create" /\ last' # last) =>
         IF last'.ret = Ok
         THEN /\ DOMAIN subs' = DOMAIN subs \cup {last'.id}
              /\ last'.id \notin DOMAIN subs
              /\ subs'[last'.id].status = Active
              /\ changes' = Append(changes,
                    [subscriptionId |-> last'.id, previousState |-> "",
                     newState |-> "active", changedAt |-> now,
                     reason |-> "Subscription created"])
         ELSE subs' = subs /\ changes' = changes]_vars

\* C10: a successful createSubscription stores the subscription together
\* with exactly one audit record for it (empty previous state, new state
\* active, reason "Subscription created"), and the two are stored atomically:
\* in every state both are present or neither is, and a create that returns
\* an error stores nothing.
C10_CreatedWithItsRecord == []CreationRecordStored /\ CreateStep

\* a subscription has just been created and has its one record
C10_Witness ==
    /\ last.op = "create"
    /\ last.ret = Ok
    /\ last.id \in DOMAIN subs
    /\ Len(RecordsOf(last.id)) = 1

\* --------------------------------------------- pricing and voucher claims
\* the call that has just returned is a successful op that returned an object
Returned(op) == last.op = op /\ last.ret = Ok /\ last.obj # Nil

\* total_amount == (discounted_price if present, else original_price) + tax_amount
AmountsConsistent(sub) ==
    DecEqual(sub.totalAmount,
             DecAdd(IF sub.discountedPrice.valid
                    THEN sub.discountedPrice.val
                    ELSE sub.originalPrice,
                    sub.taxAmount))

\* C11: every subscription that createSubscription returns and every
\* subscription that getById reads back from storage has total amount equal
\* to its discounted price if it has one, else its original price, plus its
\* tax amount.
C11_TotalIsPricePlusTax ==
    /\ Returned("create") => AmountsConsistent(last.obj)
    /\ Returned("get") => AmountsConsistent(last.obj)

\* C12: a subscription created with a voucher and then read back by getById
\* carries the voucher id, the discounted price, the original price, the tax
\* and the total that createSubscription returned.
C12_CreateReadRoundTrip ==
    [][( /\ Returned("create")
         /\ last.obj.voucherId # NilUUID
         /\ last'.op = "get" /\ last'.id = last.id /\ last'.ret = Ok )
       => /\ last'.obj.voucherId = last.obj.voucherId
          /\ last'.obj.discountedPrice.valid
          /\ DecEqual(last'.obj.discountedPrice.val, last.obj.discountedPrice.val)
          /\ DecEqual(last'.obj.originalPrice, last.obj.originalPrice)
          /\ DecEqual(last'.obj.taxAmount, last.obj.taxAmount)
          /\ DecEqual(last'.obj.totalAmount, last.obj.totalAmount)]_vars

Zero == NewFromInt(0)

\* createSubscription has just returned a subscription with a voucher applied
CreatedWithVoucher == Returned("create") /\ last.obj.voucherId # NilUUID

\* the voucher and the product of the subscription that was just returned
UsedVoucher == vouchers[last.obj.voucherId]
Bought      == products[last.obj.productId]

\* C13: the original price, the discounted price if present, the tax amount
\* and the total amount of a created subscription are never negative, and a
\* fixed discount above the price, or a percentage discount that takes more
\* than the price, leaves a discounted price of exactly 0.
C13_AmountsNotNegative ==
    Returned("create") =>
      /\ ~IsNegative(last.obj.originalPrice)
      /\ ~IsNegative(last.obj.taxAmount)
      /\ ~IsNegative(last.obj.totalAmount)
      /\ last.obj.discountedPrice.valid => ~IsNegative(last.obj.discountedPrice.val)
      /\ ( /\ last.obj.voucherId # NilUUID
           /\ \/ /\ UsedVoucher.discountType = "fixed"
                 /\ IsNegative(DecSub(Bought.price, UsedVoucher.discountValue))
              \/ /\ UsedVoucher.discountType = "percentage"
                 /\ IsNegative(DecSub(DecMul(Bought.price, NewFromInt(100)),
                                      DecMul(Bought.price, UsedVoucher.discountValue))) )
         => /\ last.obj.discountedPrice.valid
            /\ DecEqual(last.obj.discountedPrice.val, Zero)

\* a fixed discount of 50.00 on a price of 0 has left a price of 0
C13_Witness ==
    /\ CreatedWithVoucher
    /\ UsedVoucher.discountType = "fixed"
    /\ DecEqual(UsedVoucher.discountValue, Dec(50, 0))
    /\ DecEqual(Bought.price, Zero)
    /\ DecEqual(last.obj.discountedPrice.val, Zero)

\* C14: createSubscription without a voucher code, on a product of price p
\* and tax rate r, returns original price p, tax p*r, total p + p*r, no
\* discounted price and no voucher id.
C14_NoVoucherAmounts ==
    [][\A userId \in UserIds, productId \in DOMAIN products, withTrial \in BOOLEAN :
         ( /\ last'.op = "create" /\ last'.ret = Ok
           /\ CreateSubscription(userId, productId, NoCode, withTrial) )
         => /\ DecEqual(last'.obj.originalPrice, products[productId].price)
            /\ DecEqual(last'.obj.taxAmount,
                        DecMul(products[productId].price, products[productId].taxRate))
            /\ DecEqual(last'.obj.totalAmount,
                        DecAdd(products[productId].price,
                               DecMul(products[productId].price,
                                      products[productId].taxRate)))
            /\ ~last'.obj.discountedPrice.valid
            /\ last'.obj.voucherId = NilUUID]_vars

\* 100.00 at 20% tax without voucher: tax 20, total 120
C14_Witness ==
    /\ Returned("create")
    /\ last.obj.voucherId = NilUUID
    /\ ~last.obj.discountedPrice.valid
    /\ DecEqual(last.obj.originalPrice, Dec(10000, 2))
    /\ DecEqual(last.obj.taxAmount, Dec(20, 0))
    /\ DecEqual(last.obj.totalAmount, Dec(120, 0))

\* C15: with a fixed voucher of value d on a product of price p the
\* discounted price is p - d when d <= p and 0 when d > p.
C15_FixedDiscount ==
    (CreatedWithVoucher /\ UsedVoucher.discountType = "fixed")
    => /\ last.obj.discountedPrice.valid
       /\ IF IsNegative(DecSub(Bought.price, UsedVoucher.discountValue))
          THEN DecEqual(last.obj.discountedPrice.val, Zero)
          ELSE DecEqual(DecAdd(last.obj.discountedPrice.val, UsedVoucher.discountValue),
                        Bought.price)

\* a fixed discount of 50.00 on a price of 100.00 has left 50.00
C15_Witness ==
    /\ CreatedWithVoucher
    /\ UsedVoucher.discountType = "fixed"
    /\ DecEqual(UsedVoucher.discountValue, Dec(50, 0))
    /\ DecEqual(Bought.price, Dec(100, 0))
    /\ DecEqual(last.obj.discountedPrice.val, Dec(50, 0))

\* C16: with a percentage voucher of value v in [0,100] on a product of
\* price p the discounted price is p - p*v/100, not below 0; v = 100 gives
\* discounted price, tax and total 0, and v = 0 gives a discounted price
\* that is present and equal to p.
C16_PercentageDiscount ==
    (CreatedWithVoucher /\ UsedVoucher.discountType = "percentage")
    => /\ last.obj.discountedPrice.valid
       /\ DecEqual(DecMul(last.obj.discountedPrice.val, NewFromInt(100)),
                   DecSub(DecMul(Bought.price, NewFromInt(100)),
                          DecMul(Bought.price, UsedVoucher.discountValue)))
       /\ DecEqual(UsedVoucher.discountValue, NewFromInt(100))
            => /\ DecEqual(last.obj.discountedPrice.val, Zero)
               /\ DecEqual(last.obj.taxAmount, Zero)
               /\ DecEqual(last.obj.totalAmount, Zero)
       /\ DecEqual(UsedVoucher.discountValue, Zero)
            => DecEqual(last.obj.discountedPrice.val, Bought.price)

\* a voucher of 100% on a price of 100.00 at 20% tax has left nothing to pay
C16_Witness ==
    /\ CreatedWithVoucher
    /\ UsedVoucher.discountType = "percentage"
    /\ DecEqual(UsedVoucher.discountValue, NewFromInt(100))
    /\ DecEqual(Bought.price, Dec(100, 0))
    /\ DecEqual(Bought.taxRate, Dec(2, 1))
    /\ DecEqual(last.obj.totalAmount, Zero)

\* C17: when a voucher is applied, the tax is the discounted price times the
\* tax rate and the total is the discounted price plus that tax, and the
\* original price is still the price of the product.
C17_TaxOnDiscountedPrice ==
    CreatedWithVoucher
    => /\ last.obj.discountedPrice.valid
       /\ DecEqual(last.obj.taxAmount,
                   DecMul(last.obj.discountedPrice.val, Bought.taxRate))
       /\ DecEqual(last.obj.totalAmount,
                   DecAdd(last.obj.discountedPrice.val, last.obj.taxAmount))
       /\ DecEqual(last.obj.originalPrice, Bought.price)

\* 100.00 at 20% tax with a 25% voucher: discounted 75, tax 15, total 90
C17_Witness ==
    /\ CreatedWithVoucher
    /\ UsedVoucher.discountType = "percentage"
    /\ DecEqual(last.obj.originalPrice, Dec(100, 0))
    /\ DecEqual(Bought.taxRate, Dec(2, 1))
    /\ DecEqual(last.obj.discountedPrice.val, Dec(75, 0))
    /\ DecEqual(last.obj.taxAmount, Dec(15, 0))
    /\ DecEqual(last.obj.totalAmount, Dec(90, 0))

\* the stored voucher whose code is code
StoredAs(code) == vouchers[CHOOSE v \in DOMAIN vouchers : vouchers[v].code = code]

\* C18: validating a stored voucher against a target product answers
\* Inactive if the voucher is not active, otherwise Expired if the current
\* time is after its expiry, otherwise Invalid (not applicable to the
\* product) if it is scoped to another product, otherwise returns the
\* voucher; the first failing check in this order decides.
C18_ValidationPrecedence ==
    [][last'.op = "validate" =>
         \A code \in StoredCodes, productId \in ProductIds :
           ValidateVoucher(code, productId) =>
             LET voucher == StoredAs(code)
             IN  /\ last'.ret =
                      IF ~voucher.isActive THEN "ErrVoucherInactive"
                      ELSE IF now > voucher.expiresAt THEN "ErrVoucherExpired"
                      ELSE IF voucher.productId \notin {NilUUID, productId}
                      THEN "ErrVoucherInvalid"
                      ELSE Ok
                 /\ last'.ret = Ok => last'.obj.code = code]_vars

\* validation has answered Inactive for a voucher that is inactive, past its
\* expiry and scoped to a product
C18_Witness ==
    /\ last.op = "validate"
    /\ last.ret = ErrVoucherInactive
    /\ \A v \in DOMAIN vouchers :
         ~vouchers[v].isActive =>
            now > vouchers[v].expiresAt /\ vouchers[v].productId # NilUUID

\* C19: an active voucher is answered Expired exactly when the current time
\* is strictly after its expiry: at the instant of expiry itself both
\* standalone validation and createSubscription still get past the expiry
\* check, at any later instant they answer Expired.
C19_ExpiredStrictlyAfter ==
    [][\A v \in DOMAIN vouchers :
         vouchers[v].isActive =>
           /\ last'.op = "validate" =>
                \A productId \in ProductIds :
                  ValidateVoucher(vouchers[v].code, productId) =>
                    /\ last'.ret = ErrVoucherExpired <=> now > vouchers[v].expiresAt
                    /\ ( /\ now = vouchers[v].expiresAt
                         /\ vouchers[v].productId \in {NilUUID, productId} )
                       => last'.ret = Ok
           /\ last'.op = "create" =>
                \A userId \in UserIds, withTrial \in BOOLEAN :
                  CreateSubscription(userId, "p1", vouchers[v].code, withTrial) =>
                    (last'.ret = ErrVoucherExpired <=> now > vouchers[v].expiresAt)]_vars

\* a subscription was created with a voucher at the very instant the
\* voucher expires
C19_Witness ==
    /\ CreatedWithVoucher
    /\ last.obj.createdAt = UsedVoucher.expiresAt

\* C20: a voucher stored under its upper-cased code is found when its code is
\* given in lower case, by standalone validation and by createSubscription
\* alike.
C20_CodeCaseInsensitive ==
    [][\A code \in VoucherCodes :
         (code \notin StoredCodes /\ ToUpper(code) \in StoredCodes) =>
           /\ \A productId \in ProductIds :
                (last'.op = "validate" /\ ValidateVoucher(code, productId))
                   => last'.ret # ErrVoucherNotFound
           /\ \A userId \in UserIds, withTrial \in BOOLEAN :
                (last'.op = "create" /\ CreateSubscription(userId, "p1", code, withTrial))
                   => last'.ret \notin {ErrVoucherNotFound, ErrInvalidVoucherCode}]_vars

\* this step is a createSubscription call with these inputs
CreateStepWith(userId, productId, voucherCode, withTrial) ==
    /\ last'.op = "create"
    /\ CreateSubscription(userId, productId, voucherCode, withTrial)

\* the voucher stored under this code, if any, cannot be used for the product
\* at this instant: it is inactive, expired or scoped to another product
Unusable(code, productId) ==
    \A v \in DOMAIN vouchers :
      vouchers[v].code = code =>
        \/ ~vouchers[v].isActive
        \/ now > vouchers[v].expiresAt
        \/ vouchers[v].productId \notin {NilUUID, productId}

\* C21: when a voucher code is supplied and no voucher is stored under it, or
\* the stored voucher is inactive, expired or scoped to another product,
\* createSubscription returns an error and no subscription, and stores
\* neither a subscription nor an audit record: it never falls back to an
\* undiscounted subscription.
C21_VoucherFailureFailsCreation ==
    [][( /\ last'.op = "create"
         /\ ~(last'.ret # Ok /\ last'.obj = Nil /\ subs' = subs /\ changes' = changes) )
         => \A code \in VoucherCodes \ {NoCode}, userId \in UserIds, withTrial \in BOOLEAN :
              ~(Unusable(code, "p1") /\ CreateStepWith(userId, "p1", code, withTrial))]_vars

\* a creation was refused because the voucher is scoped to another product,
\* and nothing is stored
C21_Witness ==
    /\ last.op = "create"
    /\ last.ret = ErrVoucherInvalid
    /\ subs = <<>>
    /\ changes = <<>>

\* C22: createSubscription with a nil user id or a nil product id fails with
\* validation errors, exactly one per nil field (two when both are nil),
\* whatever product or voucher the other inputs name, and writes nothing.
C22_NilIdsRejected ==
    [][last'.op = "create" =>
         \A userId \in UserIds \cup {NilUUID}, productId \in ProductIds \cup {NilUUID} :
           LET offending == {f \in {"user_id", "product_id"} :
                               \/ f = "user_id" /\ userId = NilUUID
                               \/ f = "product_id" /\ productId = NilUUID}
               reported  == last'.obj.validationErrors
               asClaimed == /\ last'.ret = ErrValidation
                            /\ Len(reported) = Cardinality(offending)
                            /\ {reported[i] : i \in 1..Len(reported)} = offending
                            /\ subs' = subs
                            /\ changes' = changes
           IN  (offending # {} /\ ~asClaimed)
                 => \A code \in VoucherCodes, withTrial \in BOOLEAN :
                      ~CreateStepWith(userId, productId, code, withTrial)]_vars

\* a creation was refused with two validation errors and nothing is stored
C22_Witness ==
    /\ last.op = "create"
    /\ last.ret = ErrValidation
    /\ Len(last.obj.validationErrors) = 2
    /\ subs = <<>>

\* C23: createSubscription fails with ProductNotFound when no product has the
\* product id and with InactiveProduct when the product is not active,
\* whatever voucher code is supplied, and stores no subscription.
C23_ProductErrors ==
    [][\A userId \in UserIds, productId \in ProductIds,
          code \in VoucherCodes, withTrial \in BOOLEAN :
         CreateStepWith(userId, productId, code, withTrial)
           => /\ productId \notin DOMAIN products
                   => last'.ret = ErrProductNotFound /\ subs' = subs
              /\ (productId \in DOMAIN products /\ ~products[productId].isActive)
                   => last'.ret = ErrInactiveProduct /\ subs' = subs]_vars

\* C25: pause, unpause and cancel of a subscription id that is not in storage
\* return the subscription-not-found error, write no row and append no audit
\* record.
C25_MissingIdNotFound ==
    [][\A id \in SubIds, op \in Ops :
         (Called(op, id) /\ id \notin DOMAIN subs)
           => /\ last'.ret = ErrSubscriptionNotFound
              /\ subs' = subs
              /\ changes' = changes
              /\ statusWrites' = statusWrites]_vars

\* a cancel of an id that is not stored was answered not-found
C25_Witness ==
    /\ last.op = "cancel"
    /\ last.ret = ErrSubscriptionNotFound
    /\ last.id \notin DOMAIN subs
    /\ changes = <<>>

\* C28: the subscription a successful createSubscription returns has the
\* resolved product attached, and the resolved voucher attached whenever a
\* voucher code was supplied and accepted.
C28_RelationsAttached ==
    Returned("create") =>
      /\ last.obj.product = products[last.obj.productId]
      /\ last.obj.voucherId # NilUUID => last.obj.voucher # Nil

\* the dates of a subscription
DatesOf(sub) == <<sub.startDate, sub.endDate, sub.trialEndDate>>

\* C24: a subscription created at instant t for a product of n > 0 months has,
\* without trial, no trial end, start = t and end = start + n months, and
\* with trial, trial end = t + 1 month, start = trial end and end = trial
\* end + n months; its end is after its start; and no step ever changes the
\* dates of a stored subscription.
C24_Dates ==
    [][/\ \A id \in DOMAIN subs :
            id \in DOMAIN subs' /\ DatesOf(subs'[id]) = DatesOf(subs[id])
       /\ \A userId \in UserIds, productId \in ProductIds,
             code \in VoucherCodes, withTrial \in BOOLEAN :
            ( /\ DOMAIN subs' # DOMAIN subs
              /\ last'.ret = Ok
              /\ CreateStepWith(userId, productId, code, withTrial) )
              => LET stored == subs'[last'.id]
                     n      == products[productId].durationMonths
                 IN  /\ n > 0
                     /\ DatesOf(last'.obj) = DatesOf(stored)
                     /\ IF withTrial
                        THEN /\ stored.trialEndDate = SomeTime(now + MonthLen)
                             /\ stored.startDate = now + MonthLen
                             /\ stored.endDate = now + MonthLen + n * MonthLen
                        ELSE /\ stored.trialEndDate = NilTime
                             /\ stored.startDate = now
                             /\ stored.endDate = now + n * MonthLen
                     /\ stored.endDate > stored.startDate]_vars

\* a subscription created with a trial, for a product of two months, has
\* left the active status and still has its dates
C24_Witness ==
    \E id \in DOMAIN subs :
      /\ subs[id].status # Active
      /\ subs[id].trialEndDate.valid
      /\ subs[id].startDate = subs[id].trialEndDate.time
      /\ subs[id].endDate = subs[id].startDate + 2 * MonthLen

\* every stored product has a non-negative price, a non-negative tax rate and
\* a duration of at least one month
ProductsValid ==
    \A p \in DOMAIN products :
      /\ products[p].price.c >= 0
      /\ products[p].taxRate.c >= 0
      /\ products[p].durationMonths > 0

\* an input that product validation must reject
Rejectable(input) ==
    \/ \A i \in DOMAIN input.name : input.name[i] = " "
    \/ input.price.c < 0
    \/ input.taxRate.c < 0
    \/ input.durationMonths <= 0

\* C27: after any sequence of CreateProduct, UpdateProduct and DeleteProduct
\* calls every stored product has a non-negative price, a non-negative tax
\* rate and durationMonths > 0; a call that answers with validation errors or
\* with ErrProductNotFound leaves the product table unchanged; a call with an
\* input that validation must reject never answers anything but validation
\* errors; an update or delete of an id that has no product never answers
\* anything but ErrProductNotFound (or, for an update, validation errors).
C27_ProductsValid ==
    /\ []ProductsValid
    /\ [][/\ ( /\ last'.op \in {"createProduct", "updateProduct", "deleteProduct"}
               /\ last'.ret \in {ErrValidation, ErrProductNotFound} )
             => products' = products
          /\ (last'.op = "createProduct" /\ last'.ret # ErrValidation)
             => \A input \in {i \in ProductInputs : Rejectable(i)} :
                  ~CreateProduct(input)
          /\ (last'.op = "updateProduct" /\ last'.ret # ErrValidation)
             => /\ \A input \in {i \in ProductInputs : Rejectable(i)},
                      id \in ProductIds \cup {NilUUID} :
                     ~UpdateProduct(id, input)
                /\ \A input \in ProductInputs : ~UpdateProduct(NilUUID, input)
                /\ last'.ret # ErrProductNotFound
                     => \A input \in ProductInputs, id \in ProductIds \ DOMAIN products :
                          ~UpdateProduct(id, input)
          /\ (last'.op = "deleteProduct" /\ last'.ret # ErrProductNotFound)
             => \A id \in ProductIds \ DOMAIN products : ~DeleteProduct(id)]_vars

\* a product was created with a price below one cent, then an update of it
\* with a zero duration was rejected: it is stored with price 0.00
C27_Witness ==
    /\ last.op = "updateProduct"
    /\ last.ret = ErrValidation
    /\ "p3" \in DOMAIN products
    /\ products["p3"].price = Dec(0, 2)

\* every stored voucher has a known discount type, a non-negative value, at
\* most 100 when it is a percentage, and a code without lower-case letters
VouchersValid ==
    \A v \in DOMAIN vouchers :
      /\ vouchers[v].discountType \in {"fixed", "percentage"}
      /\ vouchers[v].discountValue.c >= 0
      /\ vouchers[v].discountType = "percentage"
           => vouchers[v].discountValue.c <= 100 * Pow10(vouchers[v].discountValue.e)
      /\ \A i \in DOMAIN vouchers[v].code : vouchers[v].code[i] \notin {"v", "x"}

\* an input that voucher validation must reject, whatever the clock shows
RejectableVoucher(input) ==
    \/ \A i \in DOMAIN input.code : input.code[i] = " "
    \/ input.discountType \notin {"fixed", "percentage"}
    \/ input.discountValue.c < 0
    \/ /\ input.discountType = "percentage"
       /\ input.discountValue.c > 100 * Pow10(input.discountValue.e)

\* C26: after any sequence of CreateVoucher and UpdateVoucher calls every
\* stored voucher has a discount type in {fixed, percentage}, a non-negative
\* discount value, a value <= 100 when the type is percentage, and a code
\* equal to its upper-cased form; a call that answers with validation errors
\* leaves the voucher table unchanged, and a call with an input that
\* validation must reject never answers anything but validation errors.
C26_VouchersValid ==
    /\ []VouchersValid
    /\ [][/\ (last'.op \in {"createVoucher", "updateVoucher"} /\ last'.ret = ErrValidation)
             => vouchers' = vouchers
          /\ (last'.op = "createVoucher" /\ last'.ret # ErrValidation)
             => \A input \in {i \in VoucherInputs : RejectableVoucher(i)} :
                  ~CreateVoucher(input)
          /\ (last'.op = "updateVoucher" /\ last'.ret # ErrValidation)
             => \A input \in {i \in VoucherInputs : RejectableVoucher(i)},
                   id \in {"v1", "v2", NilUUID} :
                  ~UpdateVoucher(id, input)]_vars

\* a voucher of 100 percent entered in lower case is stored in upper case,
\* and a later update of it was rejected by validation
C26_Witness ==
    /\ last.op = "updateVoucher"
    /\ last.ret = ErrValidation
    /\ \E v \in DOMAIN vouchers :
         /\ vouchers[v].code = <<"V", "1">>
         /\ vouchers[v].discountType = "percentage"
         /\ vouchers[v].discountValue = Dec(100, 0)

\* no two stored users have the same email
UniqueEmails ==
    \A u1, u2 \in DOMAIN users : users[u1].email = users[u2].email => u1 = u2

\* C29: RegisterUser with an email that a stored user has fails with
\* ErrUserAlreadyExists and stores no user; after any interleaving of
\* registrations no two stored users have the same email, and a registration
\* whose Create finds the email taken by a concurrent registration reports
\* ErrUserAlreadyExists.
C29_OneUserPerEmail ==
    /\ []UniqueEmails
    /\ [][\A p \in Procs :
            /\ \A input \in RegisterUserInputs :
                 ( /\ \E u \in DOMAIN users : users[u].email = input.email
                   /\ Len(input.password) >= 8
                   /\ RegisterUser(p, input) )
                   => last'.ret = ErrUserAlreadyExists /\ users' = users
            /\ ( /\ pc[p] = "createUser"
                 /\ \E u \in DOMAIN users : users[u].email = loc[p].email
                 /\ UserRepoCreate(p) )
                 => last'.ret = ErrUserAlreadyExists /\ users' = users]_vars

\* C30: with requests interleaved, a subscription whose stored status is
\* cancelled keeps that status in every step: the Update of a pause or
\* unpause request that read the subscription before the cancel was written
\* does not move it to paused or active.
C30_NoResurrection ==
    [][\A id \in DOMAIN subs :
         subs[id].status = Cancelled
           => id \in DOMAIN subs' /\ subs'[id].status = Cancelled]_vars

\* ------------------------------------------------ audit chain and statuses
\* the audit records of a stored subscription form a chain that starts at
\* creation and ends at the stored status
Chain(id) ==
    LET recs == RecordsOf(id)
    IN  /\ Len(recs) >= 1
        /\ recs[1].previousState = NoState
        /\ recs[1].newState = Active
        /\ \A i \in 2..Len(recs) : recs[i].previousState = recs[i - 1].newState
        /\ \A i \in 1..Len(recs) : recs[i].previousState # recs[i].newState
        /\ recs[Len(recs)].newState = subs[id].status

AuditChain == \A id \in DOMAIN subs : Chain(id)

\* this step is a call that returns an error
FailedCall == (calls' # calls \/ last' # last) /\ last'.ret # Ok

\* C31: for any sequence of successfully completed create and transition
\* calls made one at a time, the audit records of a subscription, in append
\* order, form a chain: the first has empty previous state and new state
\* active, each later record's previous state is the preceding record's new
\* state, no record has previous state equal to new state, and the last
\* record's new state is the stored status.  The chain is empty of
\* subscriptions at the start and every step that is not a failed call
\* keeps it.
C31_AuditChain ==
    [][(AuditChain /\ ~FailedCall) => AuditChain']_vars

\* a subscription was created, paused and unpaused, every call succeeding,
\* and its three records form the chain
C31_Witness ==
    /\ last.op = "unpause"
    /\ last.ret = Ok
    /\ last.id \in DOMAIN subs
    /\ Len(RecordsOf(last.id)) = 3
    /\ RecordsOf(last.id)[2].newState = Paused
    /\ RecordsOf(last.id)[3].previousState = Paused
    /\ AuditChain

\* C32: with a clock that never goes backwards and subscriptions changed
\* only through create, pause, unpause and cancel made one at a time, no
\* reachable state has a subscription that is paused while still in trial
\* (status paused and now before the trial end date).
C32_NeverPausedInTrial ==
    \A id \in DOMAIN subs :
        ~(/\ subs[id].status = Paused
          /\ subs[id].trialEndDate.valid
          /\ now < subs[id].trialEndDate.time)

\* a subscription created with a trial has been paused after the trial ended
C32_Witness ==
    \E id \in DOMAIN subs :
        /\ subs[id].status = Paused
        /\ subs[id].trialEndDate.valid
        /\ now >= subs[id].trialEndDate.time

\* ------------------------------------------------- frame of the transitions
\* C33: a successful pause, unpause or cancel changes only the status and
\* the updated timestamp of its subscription: owner, product id, voucher id,
\* start date, end date, trial end date, original price, discounted price,
\* tax amount, total amount and created timestamp are as before, and no
\* other subscription and no other subscription's audit records are
\* touched.
C33_TransitionFrame ==
    [][(calls' = calls + 1 /\ last'.ret = Ok) =>
         /\ DOMAIN subs' = DOMAIN subs
         /\ \A id \in DOMAIN subs :
              IF id = last'.id
              THEN subs'[id] = [subs[id] EXCEPT !.status = subs'[id].status,
                                                !.updatedAt = subs'[id].updatedAt]
              ELSE /\ subs'[id] = subs[id]
                   /\ SelectSeq(changes', LAMBDA c : c.subscriptionId = id) = RecordsOf(id)]_vars

\* the second subscription has been paused and the first, stored beside it,
\* is as it was created
C33_Witness ==
    /\ last.op = "pause"
    /\ last.ret = Ok
    /\ last.id = 2
    /\ subs[2].status = Paused
    /\ subs[2].updatedAt > subs[2].createdAt
    /\ subs[1].status = Active
    /\ subs[1].updatedAt = subs[1].createdAt
    /\ Len(RecordsOf(1)) = 1

\* --------------------------------------------------- pause, then unpause
\* this subscription is paused and its last audit record is the pause's
PauseCompleted(id) ==
    /\ subs[id].status = Paused
    /\ RecordsOf(id)[Len(RecordsOf(id))].newState = Paused

\* this step is a transition call on the subscription that got past its guard
Written(id) ==
    calls' = calls + 1 /\ last'.id = id /\ last'.ret \in {Ok} \cup StorageErrors

\* C38: pause followed by unpause on an active subscription that is not in
\* trial returns it to a state equal to the one before the pause in every
\* field except the updated timestamp, and adds exactly two audit records
\* (active -> paused, then paused -> active); the end date is not extended
\* by the time spent paused.  Step by step: the pause changes status and
\* updated timestamp only and appends active -> paused; whatever happens
\* between the two calls (time passing, rejected calls, calls on other
\* subscriptions) changes neither the row nor its records; the unpause
\* changes status and updated timestamp only, puts back the status active
\* and appends paused -> active.
C38_PauseThenUnpause ==
    [][\A id \in DOMAIN subs :
         /\ (Called("pause", id) /\ last'.ret = Ok) =>
               /\ subs[id].status = Active
               /\ subs'[id] = [subs[id] EXCEPT !.status = Paused, !.updatedAt = now]
               /\ SelectSeq(changes', LAMBDA c : c.subscriptionId = id) =
                    Append(RecordsOf(id),
                     [subscriptionId |-> id, previousState |-> Active,
                      newState |-> Paused, changedAt |-> now,
                      reason |-> "User requested pause"])
               /\ PauseCompleted(id)'
         /\ (PauseCompleted(id) /\ ~Written(id)) =>
               /\ subs'[id] = subs[id]
               /\ SelectSeq(changes', LAMBDA c : c.subscriptionId = id) = RecordsOf(id)
         /\ (PauseCompleted(id) /\ Called("unpause", id) /\ last'.ret = Ok) =>
               /\ subs'[id] = [subs[id] EXCEPT !.status = Active, !.updatedAt = now]
               /\ subs'[id].endDate = subs[id].endDate
               /\ SelectSeq(changes', LAMBDA c : c.subscriptionId = id) =
                    Append(RecordsOf(id),
                     [subscriptionId |-> id, previousState |-> Paused,
                      newState |-> Active, changedAt |-> now,
                      reason |-> "User requested unpause"])]_vars

\* a subscription without trial was paused and, one tick later, unpaused:
\* it is active, its end date is the one set at creation and it has the
\* creation record and the two records of the round trip
C38_Witness ==
    /\ last.op = "unpause"
    /\ last.ret = Ok
    /\ last.id \in DOMAIN subs
    /\ subs[last.id].status = Active
    /\ ~subs[last.id].trialEndDate.valid
    /\ subs[last.id].endDate = subs[last.id].createdAt + 2 * MonthLen
    /\ Len(RecordsOf(last.id)) = 3
    /\ RecordsOf(last.id)[2].newState = Paused
    /\ RecordsOf(last.id)[3].newState = Active
    /\ RecordsOf(last.id)[3].changedAt > RecordsOf(last.id)[2].changedAt

\* ------------------------------------------------------- status changes
\* the status changes of the lifecycle
LegalChanges ==
    {<<Active, Paused>>, <<Paused, Active>>, <<Active, Cancelled>>, <<Paused, Cancelled>>}

\* C36: every subscription is created with status active, with or without
\* a trial; in every reachable state each stored status is one of active,
\* paused, cancelled; and the only changes of a stored status that ever
\* occur are active -> paused, paused -> active, active -> cancelled and
\* paused -> cancelled.
C36_StatusChanges ==
    [][/\ \A id \in DOMAIN subs' \ DOMAIN subs : subs'[id].status = Active
       /\ \A id \in DOMAIN subs' : subs'[id].status \in {Active, Paused, Cancelled}
       /\ \A id \in DOMAIN subs \cap DOMAIN subs' :
            subs'[id].status # subs[id].status =>
              <<subs[id].status, subs'[id].status>> \in LegalChanges]_vars

\* ------------------------------------------------- the two voucher checks
\* what Service.ValidateVoucher of the voucher service returns for a code
PreCheckoutOutcome(code, productId) ==
    LET found == VouchersByCode(ToUpper(code))
    IN  IF found = {}
        THEN ErrVoucherNotFound
        ELSE ValidateVoucherChecks(vouchers[CHOOSE v \in found : TRUE], productId, now)

\* what the voucher branch of CreateSubscription returns for the same code
CreationOutcome(code, productId) ==
    WithVoucher(NewSubscription("u1", productId, FALSE, now),
                code, products[productId], productId, now).err

\* C34: the two implementations of voucher eligibility agree: for every
\* stored voucher, product and time the checks of ValidateVoucher and the
\* validateVoucher step of createSubscription return the same outcome, so
\* a code accepted at pre-checkout is accepted at creation at the same
\* instant and the other way round.
C34_ValidatorsAgree ==
    \A productId \in DOMAIN products :
      /\ \A v \in DOMAIN vouchers :
           ValidateVoucherChecks(vouchers[v], productId, now)
             = validateVoucher(vouchers[v], productId, now)
      /\ \A code \in VoucherCodes \ {NoCode} :
           (PreCheckoutOutcome(code, productId) = Ok)
             <=> (CreationOutcome(code, productId) = Ok)

\* ------------------------------------------------------ cancel completes
\* request p is a cancel of this subscription that read a status other
\* than cancelled
CancelRequested(p, id) ==
    /\ pc[p] = "guard"
    /\ req[p] = [op |-> "cancel", id |-> id]
    /\ loc[p].status # Cancelled

\* the UPDATE of a cancel of this subscription has just failed
CancelUpdateFailed(id) ==
    last.op = "cancel" /\ last.id = id /\ last.ret = ErrUpdateFailed

\* C35: cancel has no guard other than 'not already cancelled': from every
\* reachable state in which the subscription is not cancelled, an active
\* subscription in trial and a paused one included, a cancel request runs
\* to its end and, unless its UPDATE fails, the subscription is stored as
\* cancelled; so when requests that have started keep running, every
\* subscription for which a cancel is requested reaches cancelled.
C35_CancelCompletes ==
    \A p \in Procs, id \in SubIds :
        /\ CancelRequested(p, id) ~> (pc[p] = "idle")
        /\ CancelRequested(p, id) ~>
              \/ (id \in DOMAIN subs /\ subs[id].status = Cancelled)
              \/ CancelUpdateFailed(id)

\* a cancel requested during the trial has gone through: the subscription,
\* still before its trial end date, is stored as cancelled
C35_Witness ==
    /\ last.op = "cancel"
    /\ last.ret = Ok
    /\ last.was = Active
    /\ last.id \in DOMAIN subs
    /\ subs[last.id].status = Cancelled
    /\ subs[last.id].trialEndDate.valid
    /\ now < subs[last.id].trialEndDate.time

\* --------------------------------------------------------------- ownership
\* C37: through the HTTP handlers, a get, pause, unpause or cancel request
\* made by an authenticated user who is not the owner of the subscription
\* is answered with access denied, changes no stored status and appends no
\* audit record, however it interleaves with the owner's requests: the
\* request ends with that answer and starts no service call.
C37_NonOwnerDenied ==
    [][( /\ calls' = calls + 1
         /\ ~(/\ last'.ret = AccessDenied
               /\ subs' = subs
               /\ changes' = changes
               /\ pc' = pc) )
         => \A p \in Procs, userID \in AuthUsers, op \in HandlerOps, id \in DOMAIN subs :
              subs[id].userId # userID => ~HandleRequest(p, userID, op, id)]_vars

\* the owner's pause is under way (its service call has read the row) and
\* the other user's cancel has just been denied
C37_Witness ==
    /\ last.op = "cancel"
    /\ last.ret = AccessDenied
    /\ \E p \in Procs : pc[p] \in {"guard", "update", "log"} /\ req[p].op = "pause"
    /\ \A id \in DOMAIN subs : subs[id].status # Cancelled

\* ------------------------------------------------------------------ Delete
\* every stored audit record refers to a stored subscription
NoOrphanRecords ==
    \A i \in 1..Len(changes) : changes[i].subscriptionId \in DOMAIN subs

\* in every step a subscription that goes takes all its audit records with
\* it, one that stays keeps all of its, and a Delete that returns an error
\* has removed nothing
DeletedTogether ==
    [][/\ \A id \in DOMAIN subs :
            LET after == SelectSeq(changes', LAMBDA c : c.subscriptionId = id)
            IN  IF id \in DOMAIN subs'
                THEN /\ Len(after) >= Len(RecordsOf(id))
                     /\ SubSeq(after, 1, Len(RecordsOf(id))) = RecordsOf(id)
                ELSE after = <<>>
       /\ (last'.op = "delete" /\ last' # last /\ last'.ret # Ok) =>
            subs' = subs /\ changes' = changes]_vars

\* C39: audit records neither outlive nor precede their subscription: in
\* every reachable state, also after a repository Delete and after a Delete
\* that interleaves with a transition, every stored audit record refers to
\* a stored subscription, and Delete removes a subscription and all of its
\* audit records together or not at all.
C39_RecordsFollowSubscription == []NoOrphanRecords /\ DeletedTogether

\* a Delete has committed between the Update and the CreateStateChange of a
\* transition of the same subscription: the subscription and its records
\* are gone and the transition's record is still to be inserted
C39_Witness ==
    /\ last.op = "delete"
    /\ last.ret = Ok
    /\ last.id \notin DOMAIN subs
    /\ RecordsOf(last.id) = <<>>
    /\ \E p \in Procs : pc[p] = "log" /\ req[p].id = last.id

====
